---- MODULE Spec2Model ----
(***************************************************************************)
(* radix-event-stream: the stream -> processor pipeline, the handler       *)
(* registry and the two-level retry state machine of                       *)
(* TransactionStreamProcessor / TransactionProcessor / EventProcessor.     *)
(***************************************************************************)
EXTENDS Integers, Sequences, FiniteSets, TLC

(* ------------------------------ bounds --------------------------------- *)
\* number of transactions the source puts on the channel in one run
NumTx == 2
\* number of retry errors (EventRetry or TransactionRetry) handlers return in one run
MaxRetry == 2
\* capacity of the bounded channel between the source and the processor
Capacity == 2
\* highest state version the ledger of a polling source reaches
MaxSv == 5
\* limit_per_page of a polling source
LimitPerPage == 2
\* number of polls of a polling source that fail in a row
MaxFailedPolls == 2
\* number of stop() calls made on a stream
MaxStops == 2

(* ---------------------------- data model ------------------------------- *)
None == "None"

\* models.rs EventEmitter: Method{entity_address, entity_type, object_module_id}
\* or Function{package_address}; the fields of the other variant are None.
EmFunction(pkg) ==
    [type |-> "Function", address |-> pkg, entity_type |-> None,
     object_module_id |-> None]
EmMethod(addr, et, module_id) ==
    [type |-> "Method", address |-> addr, entity_type |-> et,
     object_module_id |-> module_id]

Event(name, emitter) == [name |-> name, emitter |-> emitter]

\* The events the modelled ledger emits: a package function's InstantiateEvent,
\* a SwapEvent of the generic component A, and a SetMetadataEvent that A's
\* metadata module emits.
EvInstantiate == Event("InstantiateEvent", EmFunction("P"))
EvSwap == Event("SwapEvent", EmMethod("A", "GlobalGenericComponent", "Main"))
EvSetMetadata == Event("SetMetadataEvent", EmMethod("A", "GlobalGenericComponent", "Metadata"))
EventPool == {EvInstantiate, EvSwap, EvSetMetadata}

\* The ledger the source reads: the transaction at state version sv carries
\* LedgerEvents(sv). The content repeats with period Len(LedgerShapes); a run
\* starts at from_state_version, so every window of the cycle is a possible input.
LedgerShapes ==
    << <<EvInstantiate, EvSwap>>,
       <<EvSwap>>,
       <<>>,
       <<EvSwap, EvInstantiate, EvSetMetadata>>,
       <<EvSetMetadata, EvSwap>>,
       <<EvSwap, EvSwap>> >>
LedgerEvents(sv) == LedgerShapes[((sv - 1) % Len(LedgerShapes)) + 1]

\* largest number of events carried by one transaction
MaxLen(seqs) ==
    CHOOSE n \in {Len(seqs[i]) : i \in DOMAIN seqs} :
        \A i \in DOMAIN seqs : Len(seqs[i]) <= n
MaxEvents == MaxLen(LedgerShapes)

\* EventEmitter::address
address(emitter) == emitter.address

\* NativeEventType: a kind is written Family::EventName
Kind(family, event_name) == family \o "::" \o event_name

\* the event names of NativeEventType::resolve that do not look at the entity type
ResourceManagerEvents ==
    {"VaultCreationEvent", "MintFungibleResourceEvent", "BurnFungibleResourceEvent",
     "MintNonFungibleResourceEvent", "BurnNonFungibleResourceEvent"}
MetadataEvents == {"SetMetadataEvent", "RemoveMetadataEvent"}
FeeEvents == {"LockFeeEvent", "PayFeeEvent"}
AccountLockerEvents == {"StoreEvent", "RecoverEvent", "ClaimEvent"}
ValidatorEvents ==
    {"RegisterValidatorEvent", "UnregisterValidatorEvent", "StakeEvent", "UnstakeEvent",
     "ClaimXrdEvent", "UpdateAcceptingStakeDelegationStateEvent",
     "ProtocolUpdateReadinessSignalEvent", "ValidatorEmissionAppliedEvent",
     "ValidatorRewardAppliedEvent"}
ConsensusManagerEvents == {"RoundChangeEvent", "EpochChangeEvent"}
RoleAssignmentEvents == {"SetRoleEvent", "SetOwnerRoleEvent", "LockOwnerRoleEvent"}
AccountEvents ==
    {"AddAuthorizedDepositorEvent", "RejectedDepositEvent",
     "RemoveAuthorizedDepositorEvent", "RemoveResourcePreferenceEvent",
     "SetDefaultDepositRuleEvent", "SetResourcePreferenceEvent"}

\* the inner matches on the entity type
vault_family(entity_type) ==
    CASE entity_type = "InternalFungibleVault" -> "FungibleVault"
      [] entity_type = "InternalNonFungibleVault" -> "NonFungibleVault"
      [] OTHER -> None
pool_family(entity_type) ==
    CASE entity_type = "GlobalOneResourcePool" -> "OneResourcePool"
      [] entity_type = "GlobalTwoResourcePool" -> "TwoResourcePool"
      [] entity_type = "GlobalMultiResourcePool" -> "MultiResourcePool"
      [] OTHER -> None
\* only GlobalAccount counts as an account
withdraw_family_global_account(entity_type) ==
    CASE entity_type = "InternalFungibleVault" -> "FungibleVault"
      [] entity_type = "InternalNonFungibleVault" -> "NonFungibleVault"
      [] entity_type = "GlobalOneResourcePool" -> "OneResourcePool"
      [] entity_type = "GlobalTwoResourcePool" -> "TwoResourcePool"
      [] entity_type = "GlobalMultiResourcePool" -> "MultiResourcePool"
      [] entity_type = "GlobalAccount" -> "Account"
      [] OTHER -> None

\* WithdrawEvent and DepositEvent: vaults, pools and the three account types
withdraw_family(entity_type) ==
    CASE entity_type = "InternalFungibleVault" -> "FungibleVault"
      [] entity_type = "InternalNonFungibleVault" -> "NonFungibleVault"
      [] entity_type = "GlobalOneResourcePool" -> "OneResourcePool"
      [] entity_type = "GlobalTwoResourcePool" -> "TwoResourcePool"
      [] entity_type = "GlobalMultiResourcePool" -> "MultiResourcePool"
      [] entity_type \in {"GlobalAccount", "GlobalVirtualEd25519Account",
                          "GlobalVirtualSecp256k1Account"} -> "Account"
      [] OTHER -> None
kind_of(family, event_name) == IF family = None THEN None ELSE Kind(family, event_name)

\* NativeEventType::resolve: a function of (event name, entity type); Err is None
resolve(event_name, entity_type) ==
    CASE event_name \in ResourceManagerEvents -> Kind("ResourceManager", event_name)
      [] event_name \in MetadataEvents -> Kind("Metadata", event_name)
      [] event_name \in {"WithdrawEvent", "DepositEvent"} ->
            kind_of(withdraw_family(entity_type), event_name)
      [] event_name = "RecallEvent" -> kind_of(vault_family(entity_type), event_name)
      [] event_name \in FeeEvents -> Kind("FungibleVault", event_name)
      [] event_name \in {"RedemptionEvent", "ContributionEvent"} ->
            kind_of(pool_family(entity_type), event_name)
      [] event_name \in AccountLockerEvents -> Kind("AccountLocker", event_name)
      [] event_name \in ValidatorEvents -> Kind("Validator", event_name)
      [] event_name \in ConsensusManagerEvents -> Kind("ConsensusManager", event_name)
      [] event_name \in RoleAssignmentEvents -> Kind("RoleAssignment", event_name)
      [] event_name \in AccountEvents -> Kind("Account", event_name)
      [] OTHER -> None

(* --------------------------- HandlerRegistry --------------------------- *)
\* handlers: (emitter, name) -> handler; native_handlers: kind -> handler;
\* type_id: the fingerprint of the first insertion, None before it.
EmptyFn == [x \in {} |-> None]
NewRegistry == [handlers |-> EmptyFn, native_handlers |-> EmptyFn, type_id |-> None]

\* an insertion that keeps the handler a key already has
Insert_if_absent(map, key, value) ==
    [k \in DOMAIN map \cup {key} |-> IF k \in DOMAIN map THEN map[k] ELSE value]

Insert(map, key, value) ==
    [k \in DOMAIN map \cup {key} |-> IF k = key THEN value ELSE map[k]]
Get(map, key) == IF key \in DOMAIN map THEN map[key] ELSE None

\* the one (STATE, TRANSACTION_CONTEXT) signature the modelled program uses
TheTypeId == "State,Ctx"

\* add_handler / set_native_handler: RegistryPanic on a fingerprint mismatch
RegistryPanic == [handlers |-> EmptyFn, native_handlers |-> EmptyFn, type_id |-> "panic"]
\* an insertion that does not look at the fingerprint
add_handler_unchecked(reg, type_id, emitter, name, handler) ==
    [reg EXCEPT !.type_id = type_id,
                !.handlers = Insert(reg.handlers, <<emitter, name>>, handler)]

add_handler(reg, type_id, emitter, name, handler) ==
    IF reg.type_id # None /\ reg.type_id # type_id
    THEN RegistryPanic
    ELSE [reg EXCEPT !.type_id = type_id,
                     !.handlers = Insert(reg.handlers, <<emitter, name>>, handler)]

set_native_handler(reg, type_id, event_type, handler) ==
    IF reg.type_id # None /\ reg.type_id # type_id
    THEN RegistryPanic
    ELSE [reg EXCEPT !.type_id = type_id,
                     !.native_handlers = Insert(reg.native_handlers, event_type, handler)]

\* a lookup that does not look at the fingerprint
validate_type_id_never(reg, type_id) == TRUE

\* validate_type_id
validate_type_id(reg, type_id) == reg.type_id = type_id

\* get_handler / get_native_handler: "panic" on a fingerprint mismatch
get_handler(reg, type_id, emitter, name) ==
    IF ~validate_type_id(reg, type_id) THEN "panic"
    ELSE Get(reg.handlers, <<emitter, name>>)

get_native_handler(reg, type_id, event_type) ==
    IF ~validate_type_id(reg, type_id) THEN "panic"
    ELSE Get(reg.native_handlers, event_type)

native_event_case(reg, event) ==
    LET event_type == resolve(event.name, event.emitter.entity_type)
    IN  event_type # None /\ event_type \in DOMAIN reg.native_handlers

userspace_event_case(reg, event) ==
    <<address(event.emitter), event.name>> \in DOMAIN reg.handlers

\* the userspace handlers are the ones the registry was constructed with
handler_exists_as_constructed(reg, event) ==
    IF event.emitter.type = "Method"
       /\ ~(event.emitter.object_module_id = "Main"
            /\ event.emitter.entity_type \in
                  {"GlobalGenericComponent", "InternalGenericComponent"})
    THEN native_event_case(reg, event)
    ELSE <<address(event.emitter), event.name>>
            \in DOMAIN reg.handlers \cap {<<"P", "InstantiateEvent">>}

\* either table counts, whatever the emitter
handler_exists_in_any_table(reg, event) ==
    userspace_event_case(reg, event) \/ native_event_case(reg, event)

\* handler_exists_for_event
handler_exists_for_event(reg, event) ==
    IF event.emitter.type = "Method"
    THEN IF event.emitter.object_module_id # "Main"
         THEN native_event_case(reg, event)
         ELSE IF event.emitter.entity_type \in
                     {"GlobalGenericComponent", "InternalGenericComponent"}
              THEN userspace_event_case(reg, event)
              ELSE native_event_case(reg, event)
    ELSE userspace_event_case(reg, event)

\* a resolution that looks up every Method event in the native table
resolve_handler_native_first(reg, type_id, event) ==
    IF event.emitter.type = "Function"
    THEN get_handler(reg, type_id, address(event.emitter), event.name)
    ELSE LET k == resolve(event.name, event.emitter.entity_type)
         IN  IF k = None THEN "panic"
             ELSE LET n == get_native_handler(reg, type_id, k)
                  IN  IF n = None THEN "panic" ELSE n

\* process_events lines 251-271: the userspace table first, then the native one
resolve_handler(reg, type_id, event) ==
    LET h == get_handler(reg, type_id, address(event.emitter), event.name)
    IN  IF h # None THEN h
        ELSE IF event.emitter.type = "Function" THEN "panic"
        ELSE LET k == resolve(event.name, event.emitter.entity_type)
             IN  IF k = None THEN "panic"
                 ELSE LET n == get_native_handler(reg, type_id, k)
                      IN  IF n = None THEN "panic" ELSE n

(* ------------------------------ errors --------------------------------- *)
\* the causes (anyhow::Error values): every error names where it was raised
NoCause == <<"none", 0, 0>>
Cause(origin, sv, idx) == <<origin, sv, idx>>
Ok == [kind |-> "Ok", cause |-> NoCause]
Running == [kind |-> "Running", cause |-> NoCause]
Err(kind, cause) == [kind |-> kind, cause |-> cause]

\* the panic of error.rs line 40
Panic == [kind |-> "panic", cause |-> NoCause]

\* a retry of the event on every error that asks for a retry
after_event_handler_retries_both(r) ==
    CASE r.kind = "Ok" -> "next"
      [] r.kind \in {"EventRetryError", "TransactionRetryError"} -> "retry"
      [] OTHER -> "return"

\* an EventRetryError that is dropped: the loop goes on with the next event
after_event_handler_swallows(r) ==
    CASE r.kind \in {"Ok", "EventRetryError"} -> "next"
      [] OTHER -> "return"

\* an EventRetryError that leaves the loop like the other errors
after_event_handler_returns_all(r) ==
    CASE r.kind = "Ok" -> "next"
      [] OTHER -> "return"

\* process_events lines 273-320: what the event loop does with a handler result:
\* Ok leaves the `while let Err`, EventRetryError continues it, any other error
\* is returned
after_event_handler(r) ==
    CASE r.kind = "Ok" -> "next"
      [] r.kind = "EventRetryError" -> "retry"
      [] OTHER -> "return"

\* every error of process_events asks for a retry of the transaction
from_event_error_retries_all(e) ==
    CASE e.kind = "EventRetryError" -> Panic
      [] OTHER -> Err("TransactionRetryError", e.cause)

\* an EventRetryError becomes a TransactionRetryError
from_event_error_total(e) ==
    CASE e.kind = "UnrecoverableError" -> Err("UnrecoverableError", e.cause)
      [] OTHER -> Err("TransactionRetryError", e.cause)

\* error.rs: impl From<EventHandlerError> for TransactionHandlerError
from_event_error(e) ==
    CASE e.kind = "EventRetryError" -> Panic
      [] e.kind = "TransactionRetryError" -> Err("TransactionRetryError", e.cause)
      [] e.kind = "UnrecoverableError" -> Err("UnrecoverableError", e.cause)

\* every error of the transaction handler is retried
after_transaction_handler_retries_all(r) ==
    CASE r.kind = "Ok" -> "finish"
      [] OTHER -> "retry"

\* an UnrecoverableError that is dropped: the transaction counts as finished
after_transaction_handler_drops_unrecoverable(r) ==
    CASE r.kind = "TransactionRetryError" -> "retry"
      [] OTHER -> "finish"

\* process_transaction lines 433-483: what the transaction loop does with a result
after_transaction_handler(r) ==
    CASE r.kind = "Ok" -> "finish"
      [] r.kind = "TransactionRetryError" -> "retry"
      [] r.kind = "UnrecoverableError" -> "return"

(* ------------------------------- state --------------------------------- *)
VARIABLES
    \* the source and the channel
    from_state_version, \* the state version the source starts at
    chan,            \* transactions queued in the bounded mpsc channel
    senderOpen,      \* a Sender of the channel is still alive
    sent,            \* number of transactions the source has sent
    \* the configuration of the processor
    entry,           \* the entry point: "run" or "process_transactions"
    loggerOn,        \* TransactionProcessor.logger is Some
    handlerKind,     \* "default": DefaultTransactionHandler; "custom": a user handler
    \* TransactionStreamProcessor / TransactionProcessor
    pc,              \* position of the processor task
    runResult,       \* what run() returned, Running while it runs
    periodic,        \* periodic-report task: "none", "running", "aborted"
    reportAfterReturn, \* a periodic report was issued after run() returned
    registry,        \* TransactionProcessor.handler_registry
    state,           \* TransactionProcessor.state: number of writes handlers made
    cur,             \* the transaction process_transaction works on
    handler_exists,  \* process_transaction's local handler_exists
    thResult,        \* what the transaction handler returned
    \* EventProcessor::process_events
    evIdx,           \* 1-based position of the event loop
    event_handler,   \* the handler resolved (and cloned) for the current event
    ehResult,        \* what the event handler returned
    peResult,        \* what process_events returned
    \* history
    retries,         \* retry errors handlers have returned so far in this run
    txInv,           \* invocations of the transaction handler for cur
    txRet,           \* TransactionRetryErrors the transaction handler returned for cur
    thActive,        \* transaction handler invocations that have not returned
    evActive,        \* event handler invocations that have not returned
    evInv,           \* per event: handler invocations in this process_events call
    evRet,           \* per event: EventRetryErrors returned in this process_events call
    evStatus,        \* per event: "pending", "skipped", "running", "ok", "failed", "abandoned"
    evTot,           \* per event: handler invocations over all attempts of cur
    attemptInv,      \* event handler invocations in this transaction handler attempt
    hooks,           \* the logger hooks called for cur, in order
    handled,         \* state versions handed to the transaction handler, in order
    done,            \* state versions process_transaction finished with Ok, in order
    lastUnrecoverable, \* the cause of the last UnrecoverableError a handler returned
    transaction_context, \* the scoped contexts a user transaction handler made for cur
    evSkipped,       \* per event: some process_events call for cur found no handler
    retry_steps,     \* what the processor did since a handler last returned a retry error
    \* the fetcher task of a polling source (DatabaseFetcher, GatewayFetcher)
    ledger_tip,      \* the highest state version the ledger has committed
    fetcher_state_version, \* DatabaseFetcher.state_version: the cursor of the next query
    transactions,    \* the rest of the fetched batch, still to be sent
    fpc,             \* position of the fetcher task
    fchan,           \* state versions queued in the fetcher's channel
    receiverOpen,    \* the Receiver of the fetcher's channel is alive
    delivered,       \* state versions the consumer received, in order
    sentLog,         \* state versions the fetcher sent, in order
    pollLog,         \* kinds of poll results seen so far: "empty", "failed"
    response,        \* run's local `response`: "none", "batch", "empty", "failed"
    failed_polls,    \* polls that failed in a row, the last one included
    slept,           \* the fetcher has slept since it got `response`
    join_handle,     \* the stream's join_handle: "None" or "Some"
    abort_requested, \* JoinHandle::abort was called on the fetcher task
    stops,           \* number of stop() calls made on the stream
    \* HandlerRegistry and NativeEventType called on their own
    handler_registry, \* the registry the calls work on
    call,            \* the last call: operation, arguments, result
    \* ChannelTransactionStream and the channel it was built with
    receiver,        \* ChannelTransactionStream.receiver: "Some" or "None"
    senders,         \* number of Senders of the channel that are alive
    start_result,    \* what the last start() call did: "none", "Ok", "panic"
    handed_out,      \* number of Receivers start() has handed out
    recv_none,       \* the consumer's recv() has yielded None
    \* the logger's RwLock, the processor and the periodic-report task around it
    lpc,             \* the statement the processor is at
    lphase,          \* its lock request there: "idle", "waiting", "holding"
    ptask,           \* periodic-report task: "none", "sleep", "waiting", "report", "aborted"
    periodic_abort,  \* JoinHandle::abort was called on the periodic-report task
    logger_lock,     \* the RwLock: is there a write guard, number of read guards
    waiters,         \* the tasks queued for the lock, oldest first
    \* two runs of one configuration on the same inputs, one after the other
    replay_mode,     \* "off"; "record": a first run; "replay": the same inputs again
    script,          \* what start and the handlers returned in the first run, in order
    script_pos,      \* how many entries of the script the second run has used
    first_run        \* the registry both runs start with, what the first run ended with

srcVars == <<from_state_version, chan, senderOpen, sent>>
cfgVars == <<entry, loggerOn, handlerKind>>
runVars == <<runResult, periodic, reportAfterReturn>>
userVars == <<registry, state>>
txVars == <<cur, handler_exists, thResult>>
peVars == <<evIdx, event_handler, ehResult, peResult>>
evHist == <<evInv, evRet, evStatus, evTot, attemptInv, evActive>>
txHist == <<retries, txInv, txRet, thActive, handled, done, lastUnrecoverable>>
scopeVars == <<transaction_context, evSkipped>>
procVars ==
    <<srcVars, cfgVars, pc, runVars, userVars, txVars, peVars, evHist, txHist, hooks,
      scopeVars, retry_steps>>
fetchVars ==
    <<ledger_tip, fetcher_state_version, transactions, fpc, fchan, receiverOpen,
      delivered, sentLog, pollLog, response, failed_polls, slept, join_handle,
      abort_requested, stops>>
apiVars == <<handler_registry, call>>
chanVars == <<receiver, senders, start_result, handed_out, recv_none>>
lockVars == <<lpc, lphase, ptask, periodic_abort, logger_lock, waiters>>
replayVars == <<replay_mode, script, script_pos, first_run>>
sideVars == <<chanVars, lockVars, replayVars>>
vars == <<procVars, fetchVars, apiVars, sideVars>>

Zeros == [i \in 1..MaxEvents |-> 0]
Pending == [i \in 1..MaxEvents |-> "pending"]
NoTx == [state_version |-> 0, events |-> <<>>]
NotSkipped == [i \in 1..MaxEvents |-> FALSE]

\* The scoped context of a user transaction handler (examples/pools/main.rs
\* lines 62-82: a database transaction): how many were begun, committed and
\* dropped without commit for the current transaction, whether one is open, and
\* which one was committed last.
NoContext ==
    [created |-> 0, committed |-> 0, dropped |-> 0, live |-> FALSE, last_committed |-> 0]
\* line 66-67: pool.begin()
begin(ctx) == [ctx EXCEPT !.created = @ + 1, !.live = TRUE]
\* line 80: transaction.commit()
commit(ctx) ==
    [ctx EXCEPT !.committed = @ + 1, !.live = FALSE, !.last_committed = ctx.created]
\* line 77: `?` returns and the context goes out of scope
drop_context(ctx) == [ctx EXCEPT !.dropped = @ + 1, !.live = FALSE]

\* a handler that commits whatever process_events returned
context_on_return_commits_always(ctx, result) == commit(ctx)

\* lines 70-81: the handler commits after success and drops the context with an error
context_on_return(ctx, result) ==
    IF result.kind = "Ok" THEN commit(ctx) ELSE drop_context(ctx)

\* one logger call; with logging disabled nothing is called
Hook(name, idx, handling, is_retry, cause) ==
    [hook |-> name, idx |-> idx, handling |-> handling, is_retry |-> is_retry,
     cause |-> cause]
Log(calls) == IF loggerOn THEN hooks \o calls ELSE hooks

\* one step of a retry arm: a hook call (made only with a logger) or the sleep
Step(name, delay, cause) == [step |-> name, delay |-> delay, cause |-> cause]
Logged(steps) == IF loggerOn THEN steps ELSE <<>>

\* HandlerRegistry the run starts with: the InstantiateEvent handler of package P,
\* with or without a native SetMetadataEvent handler
RegistryP == add_handler(NewRegistry, TheTypeId, "P", "InstantiateEvent", "handle_instantiate")
RegistryPM ==
    set_native_handler(RegistryP, TheTypeId, "Metadata::SetMetadataEvent", "handle_metadata")
InitialRegistries == {RegistryP, RegistryPM}

\* the source task
Transaction(sv) == [state_version |-> sv, events |-> LedgerEvents(sv)]

\* process_transactions is given its transactions as one slice: the model keeps
\* it where run keeps the queued transactions, with no sender left
Batch(from) == [i \in 1..NumTx |-> Transaction(from + i - 1)]

\* the fetcher task of a polling source is not part of this run
FetcherIdle ==
    /\ ledger_tip = 0
    /\ fetcher_state_version = 0
    /\ transactions = <<>>
    /\ fpc = "none"
    /\ fchan = <<>>
    /\ receiverOpen = FALSE
    /\ delivered = <<>>
    /\ sentLog = <<>>
    /\ pollLog = {}
    /\ response = "none"
    /\ failed_polls = 0
    /\ slept = FALSE
    /\ join_handle = "None"
    /\ abort_requested = FALSE
    /\ stops = 0

\* no call has been made
NoCall ==
    [op |-> "none", type_id |-> None, emitter |-> None, name |-> None,
     entity_type |-> None, kind |-> None, handler |-> None, event |-> 0,
     replaced |-> None, out |-> None]
ApiIdle == handler_registry = NewRegistry /\ call = NoCall

\* the logger's lock is not looked at
LoggerIdle ==
    /\ lpc = "none"
    /\ lphase = "idle"
    /\ ptask = "none"
    /\ periodic_abort = FALSE
    /\ logger_lock = [writer |-> FALSE, readers |-> 0]
    /\ waiters = <<>>

\* one run only: nothing is recorded and nothing is replayed
NoRun ==
    [input_registry |-> NewRegistry, state |-> 0, registry |-> NewRegistry,
     runResult |-> Running, sent |-> 0]
ReplayIdle ==
    /\ replay_mode = "off"
    /\ script = <<>>
    /\ script_pos = 0
    /\ first_run = NoRun

\* no ChannelTransactionStream has been built
ChannelIdle ==
    /\ receiver = "None"
    /\ senders = 0
    /\ start_result = "none"
    /\ handed_out = 0
    /\ recv_none = FALSE

Init ==
    /\ from_state_version \in 1..Len(LedgerShapes)
    /\ entry \in {"run", "process_transactions"}
    /\ chan = IF entry = "run" THEN <<>> ELSE Batch(from_state_version)
    /\ senderOpen = (entry = "run")
    /\ sent = Len(chan)
    /\ loggerOn \in BOOLEAN
    /\ handlerKind \in {"default", "custom"}
    /\ pc = IF entry = "run" THEN "start" ELSE "recv"
    /\ runResult = Running
    /\ periodic = "none"
    /\ reportAfterReturn = FALSE
    /\ registry \in InitialRegistries
    /\ state = 0
    /\ cur = NoTx
    /\ handler_exists = FALSE
    /\ thResult = Ok
    /\ evIdx = 0
    /\ event_handler = None
    /\ ehResult = Ok
    /\ peResult = Ok
    /\ retries = 0
    /\ txInv = 0
    /\ txRet = 0
    /\ thActive = 0
    /\ evActive = 0
    /\ evInv = Zeros
    /\ evRet = Zeros
    /\ evStatus = Pending
    /\ evTot = Zeros
    /\ attemptInv = 0
    /\ hooks = <<>>
    /\ handled = <<>>
    /\ done = <<>>
    /\ lastUnrecoverable = NoCause
    /\ transaction_context = NoContext
    /\ evSkipped = NotSkipped
    /\ retry_steps = <<>>
    /\ FetcherIdle
    /\ ApiIdle
    /\ ChannelIdle
    /\ LoggerIdle
    /\ ReplayIdle

(* ------------------------- the source task ----------------------------- *)
\* What start and the handlers do is theirs to decide: the model picks it. When
\* two runs on the same inputs are compared, the first run writes down, call by
\* call, what was called and what it returned (and the registry it left), and
\* the second run gets the same answer to the same call.
Scripted(called, result, reg) ==
    LET answer == [call |-> called, result |-> result, registry |-> reg]
    IN  /\ CASE replay_mode = "record" ->
                   /\ script' = Append(script, answer)
                   /\ UNCHANGED script_pos
             [] replay_mode = "replay" ->
                   /\ script_pos < Len(script)
                   /\ script[script_pos + 1] = answer
                   /\ script_pos' = script_pos + 1
                   /\ UNCHANGED script
             [] OTHER -> UNCHANGED <<script, script_pos>>
        /\ UNCHANGED <<replay_mode, first_run>>

\* Sender::send of the next ledger transaction by the producer that start has
\* launched: waits while the channel is full
Send ==
    /\ senderOpen
    /\ join_handle = "Some"
    /\ pc # "returned"
    /\ sent < NumTx
    /\ replay_mode = "replay" => sent < first_run.sent
    /\ Len(chan) < Capacity
    /\ chan' = Append(chan, Transaction(from_state_version + sent))
    /\ sent' = sent + 1
    /\ UNCHANGED <<fetchVars, apiVars, sideVars, retry_steps, scopeVars>>
    /\ UNCHANGED <<from_state_version, senderOpen, cfgVars, pc, runVars, userVars,
                   txVars, peVars, evHist, txHist, hooks>>

\* the last Sender is dropped: the stream is finished
CloseSender ==
    /\ senderOpen
    /\ replay_mode = "replay" => sent = first_run.sent
    /\ senderOpen' = FALSE
    /\ UNCHANGED <<fetchVars, apiVars, sideVars, retry_steps, scopeVars>>
    /\ UNCHANGED <<from_state_version, chan, sent, cfgVars, pc, runVars, userVars,
                   txVars, peVars, evHist, txHist, hooks>>

(* ------------------- TransactionStreamProcessor::run ------------------- *)
\* a start that launches the producer before the setup that can fail
StartStream_spawns_first ==
    /\ pc = "start"
    /\ join_handle' = "Some"
    /\ \/ /\ pc' = "spawn"
          /\ UNCHANGED <<runResult, senderOpen>>
       \/ /\ runResult' = Err("UnrecoverableError", Cause("start", 0, 0))
          /\ pc' = "returned"
          /\ senderOpen' = FALSE
    /\ UNCHANGED <<apiVars, sideVars, scopeVars, retry_steps, ledger_tip,
                   fetcher_state_version, transactions, fpc, fchan, receiverOpen,
                   delivered, sentLog, pollLog,
                   response, failed_polls, slept, abort_requested, stops>>
    /\ UNCHANGED <<from_state_version, chan, sent, cfgVars, periodic,
                   reportAfterReturn, userVars, txVars, peVars, evHist, txHist, hooks>>

\* run lines 160-163: transaction_stream.start(). Either the stream launches its
\* producer, keeps the JoinHandle and hands out the Receiver (database.rs lines
\* 230-232), or its setup fails before anything is spawned (database.rs lines
\* 221-229, the `?` after DatabaseFetcher::new, which drops the Sender) and run
\* returns the error as UnrecoverableError
StartStream ==
    /\ pc = "start"
    /\ \/ /\ pc' = "spawn"
          /\ join_handle' = "Some"
          /\ UNCHANGED <<runResult, senderOpen>>
          /\ Scripted(<<"start", 0, 0, "stream">>, Ok, registry)
       \/ /\ runResult' = Err("UnrecoverableError", Cause("start", 0, 0))
          /\ pc' = "returned"
          /\ senderOpen' = FALSE
          /\ UNCHANGED join_handle
          /\ Scripted(<<"start", 0, 0, "stream">>, runResult', registry)
    /\ UNCHANGED <<apiVars, chanVars, lockVars, scopeVars, retry_steps, ledger_tip,
                   fetcher_state_version, transactions, fpc, fchan, receiverOpen,
                   delivered, sentLog, pollLog,
                   response, failed_polls, slept, abort_requested, stops>>
    /\ UNCHANGED <<from_state_version, chan, sent, cfgVars, periodic,
                   reportAfterReturn, userVars, txVars, peVars, evHist, txHist, hooks>>

\* run lines 164-175: spawn the periodic-report task when a logger is configured
SpawnPeriodic ==
    /\ pc = "spawn"
    /\ periodic' = IF loggerOn THEN "running" ELSE "none"
    /\ pc' = "recv"
    /\ UNCHANGED <<fetchVars, apiVars, sideVars, retry_steps, scopeVars>>
    /\ UNCHANGED <<srcVars, cfgVars, runResult, reportAfterReturn, userVars, txVars,
                   peVars, evHist, txHist, hooks>>

\* the spawned task, lines 168-171: sleep, then logger.periodic_report()
PeriodicReport ==
    /\ periodic = "running"
    /\ reportAfterReturn' = (reportAfterReturn \/ pc = "returned")
    /\ UNCHANGED <<fetchVars, apiVars, sideVars, retry_steps, scopeVars>>
    /\ UNCHANGED <<srcVars, cfgVars, pc, runResult, periodic, userVars, txVars,
                   peVars, evHist, txHist, hooks>>

\* the newest transaction first
recv_newest(queue) ==
    [transaction |-> queue[Len(queue)], rest |-> SubSeq(queue, 1, Len(queue) - 1)]

\* run line 177 (and the `for` of process_transactions, line 498): the loop takes
\* the oldest transaction that is left
recv(queue) == [transaction |-> Head(queue), rest |-> Tail(queue)]

\* the loop ends as soon as every sender is dropped
loop_ends_on_close(queue, open) == ~open

\* a loop that waits for transactions for ever
loop_ends_never(queue, open) == FALSE

\* run lines 177-184: recv() yields None, and the loop ends, once every sender is
\* dropped and the queue is drained (process_transactions: the slice is used up)
loop_ends(queue, open) == queue = <<>> /\ ~open

Recv ==
    /\ pc = "recv"
    /\ chan # <<>>
    /\ cur' = recv(chan).transaction
    /\ chan' = recv(chan).rest
    /\ pc' = "process_transaction"
    /\ UNCHANGED <<fetchVars, apiVars, sideVars, retry_steps, scopeVars>>
    /\ UNCHANGED <<from_state_version, senderOpen, sent, cfgVars, runVars, userVars,
                   handler_exists, thResult, peVars, evHist, txHist, hooks>>

\* what run does with the periodic-report task when it leaves with `result`
periodic_on_exit(task, result) ==
    IF result.kind = "Ok" /\ task = "running" THEN "aborted" ELSE task

\* run lines 186-189 (process_transactions line 501): abort the periodic-report
\* task, return Ok(())
RecvClosed ==
    /\ pc = "recv"
    /\ loop_ends(chan, senderOpen)
    /\ periodic' = periodic_on_exit(periodic, Ok)
    /\ runResult' = Ok
    /\ pc' = "returned"
    /\ UNCHANGED <<fetchVars, apiVars, sideVars, retry_steps, scopeVars>>
    /\ UNCHANGED <<srcVars, cfgVars, reportAfterReturn, userVars, txVars, peVars,
                   evHist, txHist, hooks>>

(* ------------- TransactionProcessor::process_transaction --------------- *)
\* a transaction counts as handled as soon as it carries an event
any_handler_exists_any_event(reg, transaction) == Len(transaction.events) > 0

\* every transaction counts as handled
any_handler_exists_always(reg, transaction) == TRUE

\* lines 405-408: transaction.events.iter().any(|event| handler_exists(event))
any_handler_exists(reg, transaction) ==
    \E i \in 1..Len(transaction.events) :
        handler_exists_for_event(reg, transaction.events[i])

\* lines 405-417: the existence check and receive_transaction
ProcessTransactionBegin ==
    /\ pc = "process_transaction"
    /\ handler_exists' = any_handler_exists(registry, cur)
    /\ hooks' = Log(<<Hook("receive_transaction", 0, handler_exists', FALSE, NoCause)>>)
    /\ pc' = IF handler_exists' THEN "th_call" ELSE "pt_skip"
    /\ UNCHANGED <<fetchVars, apiVars, sideVars, retry_steps, scopeVars>>
    /\ UNCHANGED <<srcVars, cfgVars, runVars, userVars, cur, thResult, peVars, evHist,
                   txHist>>

\* lines 418-429: no handler for any event: finish_transaction(false), return Ok
SkipTransaction ==
    /\ pc = "pt_skip"
    /\ hooks' = Log(<<Hook("finish_transaction", 0, FALSE, FALSE, NoCause)>>)
    /\ pc' = "pt_done"
    /\ UNCHANGED <<fetchVars, apiVars, sideVars, retry_steps, scopeVars>>
    /\ UNCHANGED <<srcVars, cfgVars, runVars, userVars, txVars, peVars, evHist, txHist>>

\* lines 433-445: transaction_handler.handle(TransactionHandlerContext {..})
InvokeTransactionHandler ==
    /\ pc = "th_call"
    /\ txInv' = txInv + 1
    /\ thActive' = thActive + 1
    /\ handled' = IF txInv = 0 THEN Append(handled, cur.state_version) ELSE handled
    /\ attemptInv' = 0
    /\ pc' = "th_body"
    /\ retry_steps' = <<>>
    /\ UNCHANGED <<fetchVars, apiVars, sideVars, evSkipped>>
    /\ transaction_context' = IF handlerKind = "custom"
                              THEN begin(transaction_context)
                              ELSE transaction_context
    /\ UNCHANGED <<srcVars, cfgVars, runVars, userVars, txVars, peVars, evInv, evRet,
                   evStatus, evTot, evActive, retries, txRet, done, lastUnrecoverable,
                   hooks>>

\* the errors a handler may return now: retry errors only while the run's budget lasts
HandlerErrors(kinds, cause) ==
    {Err(k, cause) : k \in {x \in kinds : x = "UnrecoverableError" \/ retries < MaxRetry}}

\* the bookkeeping of an error a handler raises (not one it forwards)
Raise(r) ==
    /\ retries' = IF r.kind = "UnrecoverableError" THEN retries ELSE retries + 1
    /\ lastUnrecoverable' =
          IF r.kind = "UnrecoverableError" THEN r.cause ELSE lastUnrecoverable

\* the transaction handler calls event_processor.process_events(..)
\* (DefaultTransactionHandler::handle lines 207-210; the template of
\* transaction_handler.rs lines 39-50)
CallProcessEvents ==
    /\ pc = "th_body"
    /\ evIdx' = 1
    /\ evInv' = Zeros
    /\ evRet' = Zeros
    /\ evStatus' = Pending
    /\ pc' = "pe_loop"
    /\ Scripted(<<"transaction", cur.state_version, 0, handlerKind>>, Running, registry)
    /\ UNCHANGED <<fetchVars, apiVars, chanVars, lockVars, retry_steps, scopeVars>>
    /\ UNCHANGED <<srcVars, cfgVars, runVars, userVars, txVars, event_handler, ehResult,
                   peResult, evTot, attemptInv, evActive, txHist, hooks>>

\* the errors a user transaction handler returns on its own
\* (transaction_handler.rs lines 51-59)
CustomErrors ==
    HandlerErrors({"TransactionRetryError", "UnrecoverableError"},
                  Cause("transaction", cur.state_version, 0))

\* a user transaction handler returns an error of its own before process_events
CustomHandlerFails ==
    /\ pc = "th_body"
    /\ handlerKind = "custom"
    /\ \E r \in CustomErrors :
          /\ thResult' = r
          /\ Raise(r)
          /\ Scripted(<<"transaction", cur.state_version, 0, handlerKind>>, r, registry)
    /\ txRet' = IF thResult'.kind = "TransactionRetryError" THEN txRet + 1 ELSE txRet
    /\ thActive' = thActive - 1
    /\ pc' = "th_ret"
    /\ UNCHANGED <<fetchVars, apiVars, chanVars, lockVars, retry_steps, evSkipped>>
    /\ transaction_context' = context_on_return(transaction_context, thResult')
    /\ UNCHANGED <<srcVars, cfgVars, runVars, userVars, cur, handler_exists, peVars,
                   evHist, txInv, handled, done, hooks>>

\* the transaction handler returns after process_events returned: `?` converts an
\* error (error.rs From); after success the default handler returns Ok and a user
\* handler returns Ok or an error of its own
TransactionHandlerReturns ==
    /\ pc = "th_after"
    /\ IF peResult.kind # "Ok"
       THEN /\ thResult' = from_event_error(peResult)
            /\ UNCHANGED <<retries, lastUnrecoverable>>
       ELSE \/ /\ thResult' = Ok
               /\ UNCHANGED <<retries, lastUnrecoverable>>
            \/ /\ handlerKind = "custom"
               /\ \E r \in CustomErrors :
                     /\ thResult' = r
                     /\ Raise(r)
    /\ txRet' = IF thResult'.kind = "TransactionRetryError" THEN txRet + 1 ELSE txRet
    /\ peResult' = Ok
    /\ evIdx' = 0
    /\ thActive' = thActive - 1
    /\ pc' = IF thResult' = Panic THEN "panicked" ELSE "th_ret"
    /\ Scripted(<<"transaction_returns", cur.state_version, 0, handlerKind>>, thResult',
                registry)
    /\ UNCHANGED <<fetchVars, apiVars, chanVars, lockVars, retry_steps, evSkipped>>
    /\ transaction_context' = IF handlerKind = "custom"
                              THEN context_on_return(transaction_context, thResult')
                              ELSE transaction_context
    /\ UNCHANGED <<srcVars, cfgVars, runVars, userVars, cur, handler_exists,
                   event_handler, ehResult, evHist, txInv, handled, done, hooks>>

\* lines 484-491: the handler returned Ok: finish_transaction(true), return Ok
TransactionDone ==
    /\ pc = "th_ret"
    /\ after_transaction_handler(thResult) = "finish"
    /\ hooks' = Log(<<Hook("finish_transaction", 0, TRUE, FALSE, NoCause)>>)
    /\ pc' = "pt_done"
    /\ UNCHANGED <<fetchVars, apiVars, sideVars, retry_steps, scopeVars>>
    /\ UNCHANGED <<srcVars, cfgVars, runVars, userVars, txVars, peVars, evHist, txHist>>

\* a retry that takes back what the event handlers of the attempt wrote
TransactionRetry_restores ==
    /\ pc = "th_ret"
    /\ after_transaction_handler(thResult) = "retry"
    /\ hooks' = Log(<<Hook("transaction_retry_error", 0, FALSE, FALSE, thResult.cause),
                      Hook("receive_transaction", 0, handler_exists, TRUE, NoCause)>>)
    /\ thResult' = Ok
    /\ pc' = "th_call"
    /\ state' = state - attemptInv
    /\ retry_steps' =
          Logged(<<Step("transaction_retry_error", "transaction_retry_delay",
                        thResult.cause)>>)
          \o <<Step("sleep", "transaction_retry_delay", NoCause)>>
          \o Logged(<<Step("receive_transaction", "none", NoCause)>>)
    /\ UNCHANGED <<fetchVars, apiVars, sideVars, scopeVars>>
    /\ UNCHANGED <<srcVars, cfgVars, runVars, registry, cur, handler_exists, peVars,
                   evHist, txHist>>

\* a retry that calls the handler again at once
TransactionRetry_no_sleep ==
    /\ pc = "th_ret"
    /\ after_transaction_handler(thResult) = "retry"
    /\ hooks' = Log(<<Hook("transaction_retry_error", 0, FALSE, FALSE, thResult.cause),
                      Hook("receive_transaction", 0, handler_exists, TRUE, NoCause)>>)
    /\ thResult' = Ok
    /\ pc' = "th_call"
    /\ retry_steps' =
          Logged(<<Step("transaction_retry_error", "transaction_retry_delay",
                        thResult.cause),
                   Step("receive_transaction", "none", NoCause)>>)
    /\ UNCHANGED <<fetchVars, apiVars, sideVars, scopeVars>>
    /\ UNCHANGED <<srcVars, cfgVars, runVars, userVars, cur, handler_exists, peVars,
                   evHist, txHist>>

\* lines 448-473: transaction_retry_error, sleep, receive_transaction(is_retry), again
TransactionRetry ==
    /\ pc = "th_ret"
    /\ after_transaction_handler(thResult) = "retry"
    /\ hooks' = Log(<<Hook("transaction_retry_error", 0, FALSE, FALSE, thResult.cause),
                      Hook("receive_transaction", 0, handler_exists, TRUE, NoCause)>>)
    /\ thResult' = Ok
    /\ pc' = "th_call"
    /\ retry_steps' =
          Logged(<<Step("transaction_retry_error", "transaction_retry_delay",
                        thResult.cause)>>)
          \o <<Step("sleep", "transaction_retry_delay", NoCause)>>
          \o Logged(<<Step("receive_transaction", "none", NoCause)>>)
    /\ UNCHANGED <<fetchVars, apiVars, sideVars, scopeVars>>
    /\ UNCHANGED <<srcVars, cfgVars, runVars, userVars, cur, handler_exists, peVars,
                   evHist, txHist>>

\* lines 474-481 and run line 180: unrecoverable_error, process_transaction returns
\* the error and the `?` of run returns it
TransactionUnrecoverable ==
    /\ pc = "th_ret"
    /\ after_transaction_handler(thResult) = "return"
    /\ hooks' = Log(<<Hook("unrecoverable_error", 0, FALSE, FALSE, thResult.cause)>>)
    /\ runResult' = Err("UnrecoverableError", thResult.cause)
    /\ periodic' = periodic_on_exit(periodic, runResult')
    /\ pc' = "returned"
    /\ UNCHANGED <<fetchVars, apiVars, sideVars, retry_steps, scopeVars>>
    /\ UNCHANGED <<srcVars, cfgVars, reportAfterReturn, userVars, txVars, peVars, evHist,
                   txHist>>

\* run lines 177-181: process_transaction returned Ok and its locals are gone;
\* the loop awaits the next transaction
ProcessTransactionReturns ==
    /\ pc = "pt_done"
    /\ done' = Append(done, cur.state_version)
    /\ cur' = NoTx
    /\ handler_exists' = FALSE
    /\ txInv' = 0
    /\ txRet' = 0
    /\ evInv' = Zeros
    /\ evRet' = Zeros
    /\ evStatus' = Pending
    /\ evTot' = Zeros
    /\ attemptInv' = 0
    /\ hooks' = <<>>
    /\ pc' = "recv"
    /\ UNCHANGED <<fetchVars, apiVars, sideVars, retry_steps>>
    /\ transaction_context' = NoContext
    /\ evSkipped' = NotSkipped
    /\ UNCHANGED <<srcVars, cfgVars, runVars, userVars, thResult, peVars, evActive,
                   retries, thActive, handled, lastUnrecoverable>>

(* ------------------- EventProcessor::process_events -------------------- *)
CurEvent == cur.events[evIdx]

\* line 329: the loop is over, process_events returns Ok(())
ProcessEventsReturnsOk ==
    /\ pc = "pe_loop"
    /\ evIdx > Len(cur.events)
    /\ peResult' = Ok
    /\ pc' = "th_after"
    /\ UNCHANGED <<fetchVars, apiVars, sideVars, retry_steps, scopeVars>>
    /\ UNCHANGED <<srcVars, cfgVars, runVars, userVars, txVars, evIdx, event_handler,
                   ehResult, evHist, txHist, hooks>>

\* lines 235-238: no handler for the event: continue
SkipEvent ==
    /\ pc = "pe_loop"
    /\ evIdx <= Len(cur.events)
    /\ ~handler_exists_for_event(registry, CurEvent)
    /\ evStatus' = [evStatus EXCEPT ![evIdx] = "skipped"]
    /\ evIdx' = evIdx + 1
    /\ UNCHANGED <<fetchVars, apiVars, sideVars, retry_steps, transaction_context>>
    /\ evSkipped' = [evSkipped EXCEPT ![evIdx] = TRUE]
    /\ UNCHANGED <<srcVars, cfgVars, pc, runVars, userVars, txVars, event_handler,
                   ehResult, peResult, evInv, evRet, evTot, attemptInv, evActive, txHist,
                   hooks>>

\* lines 239-272: receive_event, then resolve and clone the handler
DispatchEvent ==
    /\ pc = "pe_loop"
    /\ evIdx <= Len(cur.events)
    /\ handler_exists_for_event(registry, CurEvent)
    /\ hooks' = Log(<<Hook("receive_event", evIdx, TRUE, FALSE, NoCause)>>)
    /\ event_handler' = resolve_handler(registry, TheTypeId, CurEvent)
    /\ pc' = IF event_handler' = "panic" THEN "panicked" ELSE "eh_call"
    /\ UNCHANGED <<fetchVars, apiVars, sideVars, retry_steps, scopeVars>>
    /\ UNCHANGED <<srcVars, cfgVars, runVars, userVars, txVars, evIdx, ehResult,
                   peResult, evHist, txHist>>

\* lines 273-285: event_handler.handle(EventHandlerContext {..}, data)
InvokeEventHandler ==
    /\ pc = "eh_call"
    /\ evInv' = [evInv EXCEPT ![evIdx] = @ + 1]
    /\ evTot' = [evTot EXCEPT ![evIdx] = @ + 1]
    /\ evStatus' = [evStatus EXCEPT ![evIdx] = "running"]
    /\ attemptInv' = attemptInv + 1
    /\ evActive' = evActive + 1
    /\ pc' = "eh_run"
    /\ retry_steps' = <<>>
    /\ UNCHANGED <<fetchVars, apiVars, sideVars, scopeVars>>
    /\ UNCHANGED <<srcVars, cfgVars, runVars, userVars, txVars, peVars, evRet, txHist,
                   hooks>>

\* what a handler does to the registry through the `handler_registry` of its
\* context. The InstantiateEvent handler registers the SwapEvent handler of the
\* new component before it returns Ok (examples/pools_gateway/basicv0/events.rs
\* lines 69-79), and may or may not have done so when it fails. A handler that
\* asks for a retry may have replaced the entry it was resolved from
\* (handle_swap) or have added a userspace handler for an event that was
\* resolved in the native table (handle_metadata). The other handlers leave the
\* registry alone.
RegistryEffects(handler, reg, result) ==
    CASE handler = "handle_instantiate" ->
            {add_handler(reg, TheTypeId, "A", "SwapEvent", "handle_swap")}
            \cup (IF result.kind = "Ok" THEN {} ELSE {reg})
      [] handler = "handle_swap" /\ result.kind = "EventRetryError" ->
            {reg, add_handler(reg, TheTypeId, "A", "SwapEvent", "handle_swap_v2")}
      [] handler = "handle_metadata" /\ result.kind = "EventRetryError" ->
            {reg, add_handler(reg, TheTypeId, "A", "SetMetadataEvent",
                              "handle_metadata_user")}
      [] OTHER -> {reg}

\* the user's event handler runs and returns: it writes the state, may change the
\* registry, and returns Ok or one of the three errors
EventHandlerReturns ==
    /\ pc = "eh_run"
    /\ \E r \in {Ok} \cup HandlerErrors({"EventRetryError", "TransactionRetryError",
                                        "UnrecoverableError"},
                                       Cause("event", cur.state_version, evIdx)) :
          /\ ehResult' = r
          /\ IF r.kind = "Ok" THEN UNCHANGED <<retries, lastUnrecoverable>> ELSE Raise(r)
          /\ registry' \in RegistryEffects(event_handler, registry, r)
          /\ Scripted(<<"event", cur.state_version, evIdx, event_handler>>, r, registry')
    /\ evRet' = IF ehResult'.kind = "EventRetryError"
                THEN [evRet EXCEPT ![evIdx] = @ + 1] ELSE evRet
    /\ state' = state + 1
    /\ evActive' = evActive - 1
    /\ pc' = "eh_ret"
    /\ UNCHANGED <<fetchVars, apiVars, chanVars, lockVars, retry_steps, scopeVars>>
    /\ UNCHANGED <<srcVars, cfgVars, runVars, txVars, evIdx, event_handler, peResult,
                   evInv, evStatus, evTot, attemptInv, txInv, txRet, thActive,
                   handled, done, hooks>>

\* a loop that goes back to an event it skipped once a handler for it is registered
EventDone_rewinds ==
    /\ pc = "eh_ret"
    /\ after_event_handler(ehResult) = "next"
    /\ hooks' = Log(<<Hook("finish_event", evIdx, TRUE, FALSE, NoCause)>>)
    /\ evStatus' = [evStatus EXCEPT ![evIdx] = "ok"]
    /\ evIdx' = IF \E i \in 1..(evIdx - 1) :
                       /\ evStatus[i] = "skipped"
                       /\ handler_exists_for_event(registry, cur.events[i])
                 THEN 1 ELSE evIdx + 1
    /\ ehResult' = Ok
    /\ event_handler' = None
    /\ pc' = "pe_loop"
    /\ UNCHANGED <<fetchVars, apiVars, sideVars, retry_steps, scopeVars>>
    /\ UNCHANGED <<srcVars, cfgVars, runVars, userVars, txVars, peResult,
                   evInv, evRet, evTot, attemptInv, evActive, txHist>>

\* lines 321-328: the handler returned Ok: finish_event, next event
EventDone ==
    /\ pc = "eh_ret"
    /\ after_event_handler(ehResult) = "next"
    /\ hooks' = Log(<<Hook("finish_event", evIdx, TRUE, FALSE, NoCause)>>)
    /\ evStatus' = [evStatus EXCEPT ![evIdx] =
                        IF ehResult.kind = "Ok" THEN "ok" ELSE "abandoned"]
    /\ evIdx' = evIdx + 1
    /\ ehResult' = Ok
    /\ event_handler' = None
    /\ pc' = "pe_loop"
    /\ UNCHANGED <<fetchVars, apiVars, sideVars, retry_steps, scopeVars>>
    /\ UNCHANGED <<srcVars, cfgVars, runVars, userVars, txVars, peResult,
                   evInv, evRet, evTot, attemptInv, evActive, txHist>>

\* a retry that resolves the handler of the event anew
EventRetry_resolves_again ==
    /\ pc = "eh_ret"
    /\ after_event_handler(ehResult) = "retry"
    /\ hooks' = Log(<<Hook("event_retry_error", evIdx, FALSE, FALSE, ehResult.cause),
                      Hook("receive_event", evIdx, TRUE, TRUE, NoCause)>>)
    /\ ehResult' = Ok
    /\ event_handler' = resolve_handler(registry, TheTypeId, CurEvent)
    /\ pc' = "eh_call"
    /\ retry_steps' =
          Logged(<<Step("event_retry_error", "event_retry_interval", ehResult.cause)>>)
          \o <<Step("sleep", "event_retry_interval", NoCause)>>
          \o Logged(<<Step("receive_event", "none", NoCause)>>)
    /\ UNCHANGED <<fetchVars, apiVars, sideVars, scopeVars>>
    /\ UNCHANGED <<srcVars, cfgVars, runVars, userVars, txVars, evIdx, peResult,
                   evHist, txHist>>

\* a retry that goes back to the handler without announcing the event again
EventRetry_unannounced ==
    /\ pc = "eh_ret"
    /\ after_event_handler(ehResult) = "retry"
    /\ hooks' = Log(<<Hook("event_retry_error", evIdx, FALSE, FALSE, ehResult.cause)>>)
    /\ ehResult' = Ok
    /\ pc' = "eh_call"
    /\ retry_steps' =
          Logged(<<Step("event_retry_error", "event_retry_interval", ehResult.cause)>>)
          \o <<Step("sleep", "event_retry_interval", NoCause)>>
    /\ UNCHANGED <<fetchVars, apiVars, sideVars, scopeVars>>
    /\ UNCHANGED <<srcVars, cfgVars, runVars, userVars, txVars, evIdx, event_handler,
                   peResult, evHist, txHist>>

\* a retry arm that needs the logger: without one the error leaves process_events
EventRetry_logged_only ==
    /\ pc = "eh_ret"
    /\ after_event_handler(ehResult) = "retry"
    /\ ehResult' = Ok
    /\ IF loggerOn
       THEN /\ hooks' = hooks \o <<Hook("event_retry_error", evIdx, FALSE, FALSE,
                                        ehResult.cause),
                                   Hook("receive_event", evIdx, TRUE, TRUE, NoCause)>>
            /\ pc' = "eh_call"
            /\ retry_steps' =
                  <<Step("event_retry_error", "event_retry_interval", ehResult.cause),
                    Step("sleep", "event_retry_interval", NoCause),
                    Step("receive_event", "none", NoCause)>>
            /\ UNCHANGED <<event_handler, peResult, evStatus>>
       ELSE /\ peResult' = ehResult
            /\ event_handler' = None
            /\ evStatus' = [evStatus EXCEPT ![evIdx] = "failed"]
            /\ pc' = "th_after"
            /\ UNCHANGED <<hooks, retry_steps>>
    /\ UNCHANGED <<fetchVars, apiVars, sideVars, scopeVars>>
    /\ UNCHANGED <<srcVars, cfgVars, runVars, userVars, txVars, evIdx, evInv, evRet,
                   evTot, attemptInv, evActive, txHist>>

\* lines 288-315: event_retry_error, sleep, receive_event(is_retry), same handler again
EventRetry ==
    /\ pc = "eh_ret"
    /\ after_event_handler(ehResult) = "retry"
    /\ hooks' = Log(<<Hook("event_retry_error", evIdx, FALSE, FALSE, ehResult.cause),
                      Hook("receive_event", evIdx, TRUE, TRUE, NoCause)>>)
    /\ ehResult' = Ok
    /\ pc' = "eh_call"
    /\ retry_steps' =
          Logged(<<Step("event_retry_error", "event_retry_interval", ehResult.cause)>>)
          \o <<Step("sleep", "event_retry_interval", NoCause)>>
          \o Logged(<<Step("receive_event", "none", NoCause)>>)
    /\ UNCHANGED <<fetchVars, apiVars, sideVars, scopeVars>>
    /\ UNCHANGED <<srcVars, cfgVars, runVars, userVars, txVars, evIdx, event_handler,
                   peResult, evHist, txHist>>

\* lines 316-318: any other error: return Err(err)
ProcessEventsReturnsErr ==
    /\ pc = "eh_ret"
    /\ after_event_handler(ehResult) = "return"
    /\ peResult' = ehResult
    /\ ehResult' = Ok
    /\ event_handler' = None
    /\ evStatus' = [evStatus EXCEPT ![evIdx] = "failed"]
    /\ pc' = "th_after"
    /\ UNCHANGED <<fetchVars, apiVars, sideVars, retry_steps, scopeVars>>
    /\ UNCHANGED <<srcVars, cfgVars, runVars, userVars, txVars, evIdx, evInv, evRet,
                   evTot, attemptInv, evActive, txHist, hooks>>

(* --------------------------- specification ----------------------------- *)
Next ==
    \/ Send
    \/ CloseSender
    \/ StartStream
    \/ SpawnPeriodic
    \/ PeriodicReport
    \/ Recv
    \/ RecvClosed
    \/ ProcessTransactionBegin
    \/ SkipTransaction
    \/ InvokeTransactionHandler
    \/ CallProcessEvents
    \/ CustomHandlerFails
    \/ TransactionHandlerReturns
    \/ TransactionDone
    \/ TransactionRetry
    \/ TransactionUnrecoverable
    \/ ProcessTransactionReturns
    \/ ProcessEventsReturnsOk
    \/ SkipEvent
    \/ DispatchEvent
    \/ InvokeEventHandler
    \/ EventHandlerReturns
    \/ EventDone
    \/ EventRetry
    \/ ProcessEventsReturnsErr

Spec == Init /\ [][Next]_vars

\* the steps of the processor task
ProcessorStep ==
    \/ StartStream
    \/ SpawnPeriodic
    \/ Recv
    \/ RecvClosed
    \/ ProcessTransactionBegin
    \/ SkipTransaction
    \/ InvokeTransactionHandler
    \/ CallProcessEvents
    \/ CustomHandlerFails
    \/ TransactionHandlerReturns
    \/ TransactionDone
    \/ TransactionRetry
    \/ TransactionUnrecoverable
    \/ ProcessTransactionReturns
    \/ ProcessEventsReturnsOk
    \/ SkipEvent
    \/ DispatchEvent
    \/ InvokeEventHandler
    \/ EventHandlerReturns
    \/ EventDone
    \/ EventRetry
    \/ ProcessEventsReturnsErr

\* the runtime keeps running the processor task, whose handlers, hooks and
\* sleeps return; the source sends while the channel has room and in the end
\* drops its Sender. Handlers ask for a retry at most MaxRetry times.
FairSpec ==
    /\ Spec
    /\ WF_vars(ProcessorStep)
    /\ WF_vars(Send)
    /\ WF_vars(CloseSender)

(* ------------------ the fetcher task of a polling source ---------------- *)
\* DatabaseFetcher::run (sources/database.rs) and GatewayFetcher::run
\* (sources/gateway.rs) are the same loop: fetch the next batch, retrying while
\* the fetch fails; sleep when the batch is empty; send the batch one transaction
\* at a time and return when a send fails. The model follows the database
\* fetcher, whose cursor is a field of the task.

\* the processor is not part of a run of the fetcher alone
ProcessorAtRest ==
    /\ from_state_version = 1
    /\ chan = <<>>
    /\ senderOpen = FALSE
    /\ sent = 0
    /\ entry = "run"
    /\ handlerKind = "default"
    /\ pc = "none"
    /\ runResult = Running
    /\ periodic = "none"
    /\ reportAfterReturn = FALSE
    /\ registry = NewRegistry
    /\ state = 0
    /\ cur = NoTx
    /\ handler_exists = FALSE
    /\ thResult = Ok
    /\ evIdx = 0
    /\ event_handler = None
    /\ ehResult = Ok
    /\ peResult = Ok
    /\ retries = 0
    /\ txInv = 0
    /\ txRet = 0
    /\ thActive = 0
    /\ evActive = 0
    /\ evInv = Zeros
    /\ evRet = Zeros
    /\ evStatus = Pending
    /\ evTot = Zeros
    /\ attemptInv = 0
    /\ hooks = <<>>
    /\ handled = <<>>
    /\ done = <<>>
    /\ lastUnrecoverable = NoCause
    /\ transaction_context = NoContext
    /\ evSkipped = NotSkipped
    /\ retry_steps = <<>>

ProcessorIdle == loggerOn = FALSE /\ ProcessorAtRest

\* the rows of ledger_transactions the WHERE clause of next_batch rejects
\* (discriminator = 'user' AND receipt_status != 'failed')
RejectedRows == {3}
row_matches(sv) == sv \notin RejectedRows

\* next_batch lines 128-152: the matching rows with state_version >= cursor, in
\* ascending order, at most `limit` of them
RECURSIVE fetch_all(_, _, _)
fetch_all(cursor, limit, tip) ==
    IF limit = 0 \/ cursor > tip THEN <<>>
    ELSE IF row_matches(cursor)
         THEN <<cursor>> \o fetch_all(cursor + 1, limit - 1, tip)
         ELSE fetch_all(cursor + 1, limit, tip)

\* the cursor moves on over an empty batch as well
next_state_version_always_advances(cursor, batch) ==
    IF batch = <<>> THEN cursor + 1 ELSE batch[Len(batch)] + 1

\* the cursor stays on the last transaction of the batch
next_state_version_last(cursor, batch) ==
    IF batch = <<>> THEN cursor ELSE batch[Len(batch)]

\* next_batch lines 184-187: the cursor moves past the last transaction of the batch
next_state_version(cursor, batch) ==
    IF batch = <<>> THEN cursor ELSE batch[Len(batch)] + 1

\* a send never waits
has_capacity_always(queue, capacity) == TRUE

\* Sender::send completes only while the channel holds fewer than `capacity`
\* messages (mpsc::channel(buffer_capacity), database.rs lines 219-220)
has_capacity(queue, capacity) == Len(queue) < capacity

\* the fetcher returns as soon as a fetch fails
after_next_batch_returns_on_error(result) ==
    CASE result = "failed" -> "returned"
      [] result = "empty" -> "sleep"
      [] OTHER -> "send"

\* an empty batch leads straight to the next fetch
after_next_batch_no_sleep(result) ==
    CASE result = "failed" -> "next_batch"
      [] result = "empty" -> "next_batch"
      [] OTHER -> "send"

\* run lines 194-211: where the loop goes with the result of next_batch: an Err
\* leads to the next call of next_batch inside the `while let Err`, an empty
\* batch to the sleep, any other batch to the sends
after_next_batch(result) ==
    CASE result = "failed" -> "next_batch"
      [] result = "empty" -> "sleep"
      [] OTHER -> "send"

\* an aborted task goes on as if nothing had happened
resumes_always(position, requested) == TRUE

\* JoinHandle::abort (stop, database.rs lines 235-239, gateway.rs lines 213-217)
\* cancels the task at its next suspension point: a task that awaits the query or
\* the sleep is not resumed; a task that is running goes on until it has to
\* wait, so a send that finds room still completes
resumes(position, requested) == ~requested \/ position = "send"

\* the fetcher task as start() leaves it: spawned, with its channel open
Spawned ==
    /\ transactions = <<>>
    /\ fpc = "next_batch"
    /\ fchan = <<>>
    /\ receiverOpen = TRUE
    /\ delivered = <<>>
    /\ sentLog = <<>>
    /\ pollLog = {}
    /\ response = "none"
    /\ failed_polls = 0
    /\ slept = FALSE
    /\ join_handle = "Some"
    /\ abort_requested = FALSE
    /\ stops = 0

SourceInit ==
    /\ ProcessorIdle
    /\ ApiIdle
    /\ ChannelIdle
    /\ LoggerIdle
    /\ ReplayIdle
    /\ ledger_tip \in 0..MaxSv
    /\ fetcher_state_version \in 1..2
    /\ Spawned

\* the ledger commits its next transaction
LedgerGrows ==
    /\ ledger_tip < MaxSv
    /\ ledger_tip' = ledger_tip + 1
    /\ UNCHANGED <<procVars, apiVars, sideVars, fetcher_state_version, transactions, fpc, fchan,
                   receiverOpen, delivered, sentLog, pollLog, response, failed_polls,
                   slept, join_handle, abort_requested, stops>>

\* run lines 194-205 with next_batch returning Ok: the cursor is updated, an empty
\* batch leads to the sleep, any other to the sends
NextBatchOk ==
    /\ fpc = "next_batch"
    /\ resumes(fpc, abort_requested)
    /\ transactions' = fetch_all(fetcher_state_version, LimitPerPage, ledger_tip)
    /\ fetcher_state_version' = next_state_version(fetcher_state_version, transactions')
    /\ response' = IF transactions' = <<>> THEN "empty" ELSE "batch"
    /\ fpc' = after_next_batch(response')
    /\ pollLog' = IF transactions' = <<>> THEN pollLog \cup {"empty"} ELSE pollLog
    /\ failed_polls' = 0
    /\ slept' = FALSE
    /\ UNCHANGED <<procVars, apiVars, sideVars, ledger_tip, fchan, receiverOpen, delivered,
                   sentLog, join_handle, abort_requested, stops>>

\* run lines 195-201 with next_batch returning Err (the query failed or timed
\* out, line 152, before the cursor is touched): warn and fetch again
NextBatchErr ==
    /\ fpc = "next_batch"
    /\ resumes(fpc, abort_requested)
    /\ failed_polls < MaxFailedPolls
    /\ response' = "failed"
    /\ fpc' = after_next_batch(response')
    /\ pollLog' = pollLog \cup {"failed"}
    /\ failed_polls' = failed_polls + 1
    /\ slept' = FALSE
    /\ UNCHANGED <<procVars, apiVars, sideVars, ledger_tip, fetcher_state_version, transactions,
                   fchan, receiverOpen, delivered, sentLog, join_handle,
                   abort_requested, stops>>

\* run lines 203-212 for an empty batch: sleep(caught_up_timeout), nothing to
\* send, next round of the loop
CaughtUpSleep ==
    /\ fpc = "sleep"
    /\ resumes(fpc, abort_requested)
    /\ slept' = TRUE
    /\ fpc' = "next_batch"
    /\ UNCHANGED <<procVars, apiVars, sideVars, ledger_tip, fetcher_state_version, transactions,
                   fchan, receiverOpen, delivered, sentLog, pollLog, response,
                   failed_polls, join_handle, abort_requested, stops>>

\* run lines 207-211: tx.send(transaction) completes, the receiver being alive
SendTransaction ==
    /\ fpc = "send"
    /\ resumes(fpc, abort_requested)
    /\ receiverOpen
    /\ has_capacity(fchan, Capacity)
    /\ fchan' = Append(fchan, Head(transactions))
    /\ sentLog' = Append(sentLog, Head(transactions))
    /\ transactions' = Tail(transactions)
    /\ fpc' = IF transactions' = <<>> THEN "next_batch" ELSE "send"
    /\ UNCHANGED <<procVars, apiVars, sideVars, ledger_tip, fetcher_state_version, receiverOpen,
                   delivered, pollLog, response, failed_polls, slept, join_handle,
                   abort_requested, stops>>

\* run lines 208-210: tx.send(transaction) is Err, the receiver being dropped: return
SendFails ==
    /\ fpc = "send"
    /\ resumes(fpc, abort_requested)
    /\ ~receiverOpen
    /\ fpc' = "returned"
    /\ UNCHANGED <<procVars, apiVars, sideVars, ledger_tip, fetcher_state_version, transactions,
                   fchan, receiverOpen, delivered, sentLog, pollLog, response,
                   failed_polls, slept, join_handle, abort_requested, stops>>

\* the consumer: receiver.recv() (processor.rs line 177)
Consume ==
    /\ receiverOpen
    /\ fchan # <<>>
    /\ delivered' = Append(delivered, Head(fchan))
    /\ fchan' = Tail(fchan)
    /\ UNCHANGED <<procVars, apiVars, sideVars, ledger_tip, fetcher_state_version, transactions,
                   fpc, receiverOpen, sentLog, pollLog, response, failed_polls, slept,
                   join_handle, abort_requested, stops>>

\* the consumer drops the Receiver (run returns, processor.rs lines 180 and 189):
\* what was queued is dropped with it
DropReceiver ==
    /\ receiverOpen
    /\ receiverOpen' = FALSE
    /\ fchan' = <<>>
    /\ UNCHANGED <<procVars, apiVars, sideVars, ledger_tip, fetcher_state_version, transactions,
                   fpc, delivered, sentLog, pollLog, response, failed_polls, slept,
                   join_handle, abort_requested, stops>>

SourceNext ==
    \/ LedgerGrows
    \/ NextBatchOk
    \/ NextBatchErr
    \/ CaughtUpSleep
    \/ SendTransaction
    \/ SendFails
    \/ Consume
    \/ DropReceiver

SourceSpec == SourceInit /\ [][SourceNext]_vars

\* the runtime keeps running the fetcher task and the consumer: a step of theirs
\* that stays possible is taken; the ledger need not grow, queries need not fail
SourceFairSpec ==
    /\ SourceSpec
    /\ WF_vars(NextBatchOk)
    /\ WF_vars(CaughtUpSleep)
    /\ WF_vars(SendTransaction)
    /\ WF_vars(SendFails)
    /\ WF_vars(Consume)

(* --------------------- TransactionStream: start, stop ------------------- *)
\* the stream as its builder leaves it: no task, no channel
StreamInit ==
    /\ ProcessorIdle
    /\ ApiIdle
    /\ ChannelIdle
    /\ LoggerIdle
    /\ ReplayIdle
    /\ ledger_tip \in 0..MaxSv
    /\ fetcher_state_version \in 1..2
    /\ transactions = <<>>
    /\ fpc = "none"
    /\ fchan = <<>>
    /\ receiverOpen = FALSE
    /\ delivered = <<>>
    /\ sentLog = <<>>
    /\ pollLog = {}
    /\ response = "none"
    /\ failed_polls = 0
    /\ slept = FALSE
    /\ join_handle = "None"
    /\ abort_requested = FALSE
    /\ stops = 0

\* start (database.rs lines 218-233, gateway.rs lines 198-211): create the
\* channel, spawn the fetcher task with the Sender, keep the JoinHandle, hand
\* out the Receiver
start ==
    /\ fpc = "none"
    /\ fpc' = "next_batch"
    /\ receiverOpen' = TRUE
    /\ join_handle' = "Some"
    /\ UNCHANGED <<procVars, apiVars, sideVars, ledger_tip, fetcher_state_version, transactions,
                   fchan, delivered, sentLog, pollLog, response, failed_polls, slept,
                   abort_requested, stops>>

\* stop (database.rs lines 235-239, gateway.rs lines 213-217): take the
\* JoinHandle and abort the task; without a JoinHandle nothing is done
stop ==
    /\ stops < MaxStops
    /\ stops' = stops + 1
    /\ join_handle' = "None"
    /\ abort_requested' = (abort_requested \/ join_handle = "Some")
    /\ UNCHANGED <<procVars, apiVars, sideVars, ledger_tip, fetcher_state_version, transactions,
                   fpc, fchan, receiverOpen, delivered, sentLog, pollLog, response,
                   failed_polls, slept>>

\* the aborted task is cancelled where it waits: its future is dropped, and with
\* it the batch in hand and the Sender
TaskCancelled ==
    /\ abort_requested
    /\ fpc \in {"next_batch", "sleep", "send"}
    /\ fpc' = "aborted"
    /\ transactions' = <<>>
    /\ UNCHANGED <<procVars, apiVars, sideVars, ledger_tip, fetcher_state_version, fchan,
                   receiverOpen, delivered, sentLog, pollLog, response, failed_polls,
                   slept, join_handle, abort_requested, stops>>

StreamNext ==
    \/ start
    \/ stop
    \/ TaskCancelled
    \/ LedgerGrows
    \/ NextBatchOk
    \/ NextBatchErr
    \/ CaughtUpSleep
    \/ SendTransaction
    \/ SendFails
    \/ Consume
    \/ DropReceiver

\* the runtime keeps running the fetcher task and the consumer, and cancels an
\* aborted task
StreamSpec ==
    /\ StreamInit
    /\ [][StreamNext]_vars
    /\ WF_vars(NextBatchOk)
    /\ WF_vars(CaughtUpSleep)
    /\ WF_vars(SendTransaction)
    /\ WF_vars(SendFails)
    /\ WF_vars(Consume)
    /\ WF_vars(TaskCancelled)


(* ------- one configuration run twice: with a logger, then without ------- *)
\* The first run is built with a logger (TransactionStreamProcessor::new installs
\* DefaultLogger); the second is the same construction followed by
\* disable_logging(), on the same stream, registry, state and handlers.
ReplayInit ==
    /\ from_state_version \in 1..Len(LedgerShapes)
    /\ entry \in {"run", "process_transactions"}
    /\ chan = IF entry = "run" THEN <<>> ELSE Batch(from_state_version)
    /\ senderOpen = (entry = "run")
    /\ sent = Len(chan)
    /\ loggerOn = TRUE
    /\ handlerKind \in {"default", "custom"}
    /\ pc = IF entry = "run" THEN "start" ELSE "recv"
    /\ runResult = Running
    /\ periodic = "none"
    /\ reportAfterReturn = FALSE
    /\ registry \in InitialRegistries
    /\ state = 0
    /\ cur = NoTx
    /\ handler_exists = FALSE
    /\ thResult = Ok
    /\ evIdx = 0
    /\ event_handler = None
    /\ ehResult = Ok
    /\ peResult = Ok
    /\ retries = 0
    /\ txInv = 0
    /\ txRet = 0
    /\ thActive = 0
    /\ evActive = 0
    /\ evInv = Zeros
    /\ evRet = Zeros
    /\ evStatus = Pending
    /\ evTot = Zeros
    /\ attemptInv = 0
    /\ hooks = <<>>
    /\ handled = <<>>
    /\ done = <<>>
    /\ lastUnrecoverable = NoCause
    /\ transaction_context = NoContext
    /\ evSkipped = NotSkipped
    /\ retry_steps = <<>>
    /\ FetcherIdle
    /\ ApiIdle
    /\ ChannelIdle
    /\ LoggerIdle
    /\ replay_mode = "record"
    /\ script = <<>>
    /\ script_pos = 0
    /\ first_run = [NoRun EXCEPT !.input_registry = registry]

\* the first run has returned: its outcome is kept and the second processor is
\* built from the same inputs, with disable_logging() (lines 142-144)
Replay ==
    /\ replay_mode = "record"
    /\ pc = "returned"
    /\ replay_mode' = "replay"
    /\ first_run' = [first_run EXCEPT !.state = state, !.registry = registry,
                                      !.runResult = runResult, !.sent = sent]
    /\ script_pos' = 0
    /\ loggerOn' = FALSE
    /\ chan' = IF entry = "run" THEN <<>> ELSE Batch(from_state_version)
    /\ senderOpen' = (entry = "run")
    /\ sent' = Len(chan')
    /\ pc' = IF entry = "run" THEN "start" ELSE "recv"
    /\ runResult' = Running
    /\ periodic' = "none"
    /\ reportAfterReturn' = FALSE
    /\ registry' = first_run.input_registry
    /\ state' = 0
    /\ cur' = NoTx
    /\ handler_exists' = FALSE
    /\ thResult' = Ok
    /\ evIdx' = 0
    /\ event_handler' = None
    /\ ehResult' = Ok
    /\ peResult' = Ok
    /\ retries' = 0
    /\ txInv' = 0
    /\ txRet' = 0
    /\ thActive' = 0
    /\ evActive' = 0
    /\ evInv' = Zeros
    /\ evRet' = Zeros
    /\ evStatus' = Pending
    /\ evTot' = Zeros
    /\ attemptInv' = 0
    /\ hooks' = <<>>
    /\ handled' = <<>>
    /\ done' = <<>>
    /\ lastUnrecoverable' = NoCause
    /\ transaction_context' = NoContext
    /\ evSkipped' = NotSkipped
    /\ retry_steps' = <<>>
    /\ join_handle' = "None"
    /\ UNCHANGED <<from_state_version, entry, handlerKind, script, apiVars, chanVars,
                   lockVars, ledger_tip, fetcher_state_version, transactions, fpc,
                   fchan, receiverOpen, delivered, sentLog, pollLog, response,
                   failed_polls, slept, abort_requested, stops>>

\* the two runs; the reports of the first run's periodic task are left out, they
\* touch nothing a run is compared on
ReplayNext ==
    \/ ProcessorStep
    \/ Send
    \/ CloseSender
    \/ Replay

ReplaySpec == ReplayInit /\ [][ReplayNext]_vars

(* ------------------- the logger's RwLock (processor.rs) ----------------- *)
\* The logger is an Arc<RwLock<Box<dyn Logger>>> (line 335). Every hook call of
\* the processor is one statement `logger.write().await.hook(..).await`, run
\* reads the report interval in one statement `logger.read().await
\* .periodic_report_interval()` (line 166), and the periodic-report task calls
\* `logger.read().await.periodic_report().await` (line 170). The guard is a
\* temporary of its statement. The model follows the statements of run,
\* process_transaction and process_events of a processor that has a logger, and
\* leaves the data out: a branch on data is a choice.

\* the statements that call a hook, named after the hook
HookSites ==
    {"receive_transaction", "finish_transaction_skipped", "transaction_retry_error",
     "receive_transaction_retry", "unrecoverable_error", "finish_transaction",
     "receive_event", "event_retry_error", "receive_event_retry", "finish_event"}
\* the statements that lock the logger
LockSites == HookSites \cup {"periodic_report_interval"}

\* the statements that can follow a statement
next_statement(at) ==
    CASE at = "periodic_report_interval" -> {"spawn"}                \* line 166
      [] at = "spawn" -> {"recv"}                                    \* lines 167-172
      [] at = "recv" -> {"receive_transaction", "returned"}          \* lines 177, 186-189
      [] at = "receive_transaction" ->                               \* lines 410-418
            {"finish_transaction_skipped", "handle_transaction"}
      [] at = "finish_transaction_skipped" -> {"recv"}               \* lines 421-429
      [] at = "handle_transaction" -> {"for_event", "handled_transaction"} \* lines 433-445
      [] at = "for_event" -> {"receive_event", "handled_transaction"} \* lines 234-238, 329
      [] at = "receive_event" -> {"handle_event"}                    \* lines 239-272
      [] at = "handle_event" ->                                      \* lines 273-286
            {"finish_event", "event_retry_error", "handled_transaction"}
      [] at = "event_retry_error" -> {"sleep_event"}                 \* lines 289-300
      [] at = "sleep_event" -> {"receive_event_retry"}               \* line 301
      [] at = "receive_event_retry" -> {"handle_event"}              \* lines 302-314
      [] at = "finish_event" -> {"for_event"}                        \* lines 321-328
      [] at = "handled_transaction" ->                               \* lines 446-483
            {"finish_transaction", "transaction_retry_error", "unrecoverable_error"}
      [] at = "transaction_retry_error" -> {"sleep_transaction"}     \* lines 449-459
      [] at = "sleep_transaction" -> {"receive_transaction_retry"}   \* line 460
      [] at = "receive_transaction_retry" -> {"handle_transaction"}  \* lines 461-472
      [] at = "unrecoverable_error" -> {"returned"}                  \* lines 475-481
      [] at = "finish_transaction" -> {"recv"}                       \* lines 484-491
      [] OTHER -> {}

\* RwLock::read or RwLock::write
lock_mode(task, at) ==
    IF task = "periodic" \/ at = "periodic_report_interval" THEN "read" ELSE "write"
\* a write guard excludes every other guard, a read guard excludes a write guard
can_grant(lk, mode) ==
    IF mode = "write" THEN ~lk.writer /\ lk.readers = 0 ELSE ~lk.writer
acquire(lk, mode) ==
    IF mode = "write" THEN [lk EXCEPT !.writer = TRUE]
    ELSE [lk EXCEPT !.readers = @ + 1]

\* a guard that lives on after its statement
drop_guard_later(lk, mode) == lk

\* the guard is a temporary: it is dropped at the end of the statement
drop_guard(lk, mode) ==
    IF mode = "write" THEN [lk EXCEPT !.writer = FALSE]
    ELSE [lk EXCEPT !.readers = @ - 1]

\* run has started the stream and has a logger (lines 164-166)
LoggerInit ==
    /\ ProcessorAtRest
    /\ loggerOn = TRUE
    /\ FetcherIdle
    /\ ApiIdle
    /\ ChannelIdle
    /\ ReplayIdle
    /\ lpc = "periodic_report_interval"
    /\ lphase = "idle"
    /\ ptask = "none"
    /\ periodic_abort = FALSE
    /\ logger_lock = [writer |-> FALSE, readers |-> 0]
    /\ waiters = <<>>

\* logger.write() / logger.read() is awaited: the task queues for the lock
LockRequest ==
    /\ lpc \in LockSites
    /\ lphase = "idle"
    /\ lphase' = "waiting"
    /\ waiters' = Append(waiters, "processor")
    /\ UNCHANGED <<procVars, fetchVars, apiVars, chanVars, replayVars, lpc, ptask,
                   periodic_abort,
                   logger_lock>>

\* the lock is fair: the oldest waiter gets its guard as soon as the guards that
\* are out allow it
LockGranted ==
    /\ waiters # <<>>
    /\ LET task == Head(waiters)
           mode == lock_mode(task, lpc)
       IN  /\ can_grant(logger_lock, mode)
           /\ logger_lock' = acquire(logger_lock, mode)
           /\ IF task = "processor"
              THEN lphase' = "holding" /\ UNCHANGED ptask
              ELSE ptask' = "report" /\ UNCHANGED lphase
    /\ waiters' = Tail(waiters)
    /\ UNCHANGED <<procVars, fetchVars, apiVars, chanVars, replayVars, lpc, periodic_abort>>

\* the hook (or periodic_report_interval) returns, the statement ends
HookReturns ==
    /\ lpc \in LockSites
    /\ lphase = "holding"
    /\ logger_lock' = drop_guard(logger_lock, lock_mode("processor", lpc))
    /\ lphase' = "idle"
    /\ lpc' \in next_statement(lpc)
    /\ UNCHANGED <<procVars, fetchVars, apiVars, chanVars, replayVars, ptask, periodic_abort,
                   waiters>>

\* a statement that does not touch the logger: spawn the periodic-report task,
\* receive, run a handler, sleep; leaving the receive loop with None aborts the
\* periodic-report task (lines 186-188)
Proceeds ==
    /\ lpc \notin LockSites
    /\ lpc' \in next_statement(lpc)
    /\ ptask' = IF lpc = "spawn" THEN "sleep" ELSE ptask
    /\ periodic_abort' = (periodic_abort \/ (lpc = "recv" /\ lpc' = "returned"))
    /\ UNCHANGED <<procVars, fetchVars, apiVars, chanVars, replayVars, lphase, logger_lock,
                   waiters>>

\* the periodic-report task: the sleep is over (line 169), logger.read() is awaited
PeriodicWakes ==
    /\ ptask = "sleep"
    /\ ~periodic_abort
    /\ ptask' = "waiting"
    /\ waiters' = Append(waiters, "periodic")
    /\ UNCHANGED <<procVars, fetchVars, apiVars, chanVars, replayVars, lpc, lphase,
                   periodic_abort,
                   logger_lock>>

\* periodic_report returns, the statement of line 170 ends
PeriodicReportReturns ==
    /\ ptask = "report"
    /\ logger_lock' = drop_guard(logger_lock, "read")
    /\ ptask' = "sleep"
    /\ UNCHANGED <<procVars, fetchVars, apiVars, chanVars, replayVars, lpc, lphase,
                   periodic_abort,
                   waiters>>

\* the aborted task is cancelled where it waits: its future is dropped, and with
\* it its place in the queue and its guard
PeriodicCancelled ==
    /\ periodic_abort
    /\ ptask \in {"sleep", "waiting", "report"}
    /\ ptask' = "aborted"
    /\ waiters' = SelectSeq(waiters, LAMBDA task : task # "periodic")
    /\ logger_lock' = IF ptask = "report" THEN drop_guard(logger_lock, "read")
                      ELSE logger_lock
    /\ UNCHANGED <<procVars, fetchVars, apiVars, chanVars, replayVars, lpc, lphase,
                   periodic_abort>>

LoggerNext ==
    \/ LockRequest
    \/ LockGranted
    \/ HookReturns
    \/ Proceeds
    \/ PeriodicWakes
    \/ PeriodicReportReturns
    \/ PeriodicCancelled

\* the runtime keeps running both tasks, the lock hands out its guards, and a
\* hook and a periodic report return; handlers may fail and be retried for ever
LoggerSpec ==
    /\ LoggerInit
    /\ [][LoggerNext]_vars
    /\ WF_vars(LockRequest)
    /\ WF_vars(LockGranted)
    /\ WF_vars(HookReturns)
    /\ WF_vars(PeriodicReportReturns)
    /\ WF_vars(PeriodicCancelled)

(* ------------------ ChannelTransactionStream (channel.rs) ---------------- *)
\* the user task may hold the Sender and one clone of it
MaxSenders == 2

\* new (lines 16-26): one mpsc::channel(capacity); the stream keeps the Receiver
\* in its `receiver` field, the caller gets the Sender. Nothing is spawned.
ChannelInit ==
    /\ ProcessorIdle
    /\ FetcherIdle
    /\ ApiIdle
    /\ LoggerIdle
    /\ ReplayIdle
    /\ receiver = "Some"
    /\ senders = 1
    /\ start_result = "none"
    /\ handed_out = 0
    /\ recv_none = FALSE

\* a start that makes a Receiver of its own whenever the field is empty
channel_start_again ==
    /\ receiver' = "None"
    /\ receiverOpen' = TRUE
    /\ start_result' = "Ok"
    /\ handed_out' = handed_out + 1
    /\ handed_out < 2
    /\ UNCHANGED <<procVars, apiVars, lockVars, replayVars, ledger_tip,
                   fetcher_state_version, transactions,
                   fpc, fchan, delivered, sentLog, pollLog, response, failed_polls,
                   slept, join_handle, abort_requested, stops, senders, recv_none>>

\* start (lines 31-33): self.receiver.take().expect("Receiver already taken"):
\* the first call hands out the Receiver made by new, every later call panics.
\* No task is spawned and no JoinHandle is kept.
channel_start ==
    /\ IF receiver = "Some"
       THEN /\ receiver' = "None"
            /\ receiverOpen' = TRUE
            /\ start_result' = "Ok"
            /\ handed_out' = handed_out + 1
       ELSE /\ start_result' = "panic"
            /\ UNCHANGED <<receiver, receiverOpen, handed_out>>
    /\ UNCHANGED <<procVars, apiVars, lockVars, replayVars, ledger_tip,
                   fetcher_state_version, transactions,
                   fpc, fchan, delivered, sentLog, pollLog, response, failed_polls,
                   slept, join_handle, abort_requested, stops, senders, recv_none>>

\* stop (line 35): nothing to do, no task was spawned
channel_stop ==
    /\ stops < MaxStops
    /\ stops' = stops + 1
    /\ UNCHANGED <<procVars, apiVars, sideVars, ledger_tip, fetcher_state_version,
                   transactions, fpc, fchan, receiverOpen, delivered, sentLog, pollLog,
                   response, failed_polls, slept, join_handle, abort_requested>>

\* the Receiver of the channel is alive, in the stream or with the consumer
receiver_alive == receiver = "Some" \/ receiverOpen

\* the user task (examples/channel.rs lines 86-90): sender.send(transaction)
\* completes when the queue has room
ChannelSend ==
    /\ senders > 0
    /\ receiver_alive
    /\ Len(sentLog) < MaxSv
    /\ has_capacity(fchan, Capacity)
    /\ fchan' = Append(fchan, Len(sentLog) + 1)
    /\ sentLog' = Append(sentLog, Len(sentLog) + 1)
    /\ UNCHANGED <<procVars, apiVars, sideVars, ledger_tip, fetcher_state_version,
                   transactions, fpc, receiverOpen, delivered, pollLog, response,
                   failed_polls, slept, join_handle, abort_requested, stops>>

\* Sender::clone
CloneSender ==
    /\ senders > 0
    /\ senders < MaxSenders
    /\ senders' = senders + 1
    /\ UNCHANGED <<procVars, apiVars, fetchVars, lockVars, replayVars, receiver,
                   start_result, handed_out,
                   recv_none>>

\* a Sender is dropped (examples/channel.rs line 92: the user task ends)
DropSender ==
    /\ senders > 0
    /\ senders' = senders - 1
    /\ UNCHANGED <<procVars, apiVars, fetchVars, lockVars, replayVars, receiver,
                   start_result, handed_out,
                   recv_none>>

\* the consumer's recv() yields None (processor.rs lines 177 and 186-189): the
\* loop of run ends and run drops the Receiver
RecvNone ==
    /\ receiverOpen
    /\ loop_ends(fchan, senders > 0)
    /\ recv_none' = TRUE
    /\ receiverOpen' = FALSE
    /\ UNCHANGED <<procVars, apiVars, lockVars, replayVars, ledger_tip,
                   fetcher_state_version, transactions,
                   fpc, fchan, delivered, sentLog, pollLog, response, failed_polls,
                   slept, join_handle, abort_requested, stops, receiver, senders,
                   start_result, handed_out>>

ChannelNext ==
    \/ channel_start
    \/ channel_stop
    \/ ChannelSend
    \/ CloneSender
    \/ DropSender
    \/ Consume
    \/ RecvNone
    \/ DropReceiver

ChannelSpec == ChannelInit /\ [][ChannelNext]_vars

(* ------------ HandlerRegistry and NativeEventType on their own ---------- *)
\* The registry is built by add_handler / set_native_handler calls and read by
\* get_handler, get_native_handler, handler_exists_for_event and by the handler
\* resolution of process_events; the calls are made with either of two
\* (STATE, TRANSACTION_CONTEXT) signatures.
OtherTypeId == "State,OtherCtx"
TypeIds == {TheTypeId, OtherTypeId}
UserKeys == {<<"P", "InstantiateEvent">>, <<"A", "SwapEvent">>, <<"A", "SetMetadataEvent">>}
NativeKinds == {Kind("Metadata", "SetMetadataEvent"), Kind("FungibleVault", "WithdrawEvent")}
Handlers == {"h1", "h2"}

\* the events the reads are made for: a package function's event, events of a
\* global and of an internal generic component, an event of a component's
\* metadata module, and events of a vault, one native and one unknown
EvInternalSwap == Event("SwapEvent", EmMethod("A", "InternalGenericComponent", "Main"))
EvVaultWithdraw == Event("WithdrawEvent", EmMethod("V", "InternalFungibleVault", "Main"))
EvVaultSwap == Event("SwapEvent", EmMethod("A", "InternalFungibleVault", "Main"))
ApiEvents ==
    <<EvInstantiate, EvSwap, EvInternalSwap, EvSetMetadata, EvVaultWithdraw, EvVaultSwap>>

RegistryInit ==
    /\ ProcessorIdle
    /\ FetcherIdle
    /\ ApiIdle
    /\ ChannelIdle
    /\ LoggerIdle
    /\ ReplayIdle

\* a panic leaves the registry as it was when the panic was raised: both
\* insertions check the fingerprint (lines 159-171) before they touch a table
after_insert(before, result) == IF result = RegistryPanic THEN before ELSE result
insert_out(result) == IF result = RegistryPanic THEN "panic" ELSE "ok"

\* handler_registry.add_handler::<STATE, TRANSACTION_CONTEXT>(emitter, name, handler)
AddHandler ==
    \E t \in TypeIds, key \in UserKeys, h \in Handlers :
        LET result == add_handler(handler_registry, t, key[1], key[2], h)
        IN  /\ handler_registry' = after_insert(handler_registry, result)
            /\ call' = [NoCall EXCEPT !.op = "add_handler", !.type_id = t,
                                      !.emitter = key[1], !.name = key[2],
                                      !.handler = h,
                                      !.replaced = Get(handler_registry.handlers, key),
                                      !.out = insert_out(result)]
            /\ UNCHANGED <<procVars, fetchVars, sideVars>>

\* handler_registry.set_native_handler::<STATE, TRANSACTION_CONTEXT>(event_type, handler)
SetNativeHandler ==
    \E t \in TypeIds, k \in NativeKinds, h \in Handlers :
        LET result == set_native_handler(handler_registry, t, k, h)
        IN  /\ handler_registry' = after_insert(handler_registry, result)
            /\ call' = [NoCall EXCEPT !.op = "set_native_handler", !.type_id = t,
                                      !.kind = k, !.handler = h,
                                      !.replaced = Get(handler_registry.native_handlers, k),
                                      !.out = insert_out(result)]
            /\ UNCHANGED <<procVars, fetchVars, sideVars>>

\* handler_registry.get_handler::<STATE, TRANSACTION_CONTEXT>(emitter, name)
GetHandler ==
    \E t \in TypeIds, key \in UserKeys :
        /\ call' = [NoCall EXCEPT !.op = "get_handler", !.type_id = t,
                                  !.emitter = key[1], !.name = key[2],
                                  !.out = get_handler(handler_registry, t, key[1], key[2])]
        /\ UNCHANGED <<procVars, fetchVars, sideVars, handler_registry>>

\* handler_registry.get_native_handler::<STATE, TRANSACTION_CONTEXT>(event_type)
GetNativeHandler ==
    \E t \in TypeIds, k \in NativeKinds :
        /\ call' = [NoCall EXCEPT !.op = "get_native_handler", !.type_id = t,
                                  !.kind = k,
                                  !.out = get_native_handler(handler_registry, t, k)]
        /\ UNCHANGED <<procVars, fetchVars, sideVars, handler_registry>>

\* handler_registry.handler_exists_for_event(event)
HandlerExists ==
    \E e \in 1..Len(ApiEvents) :
        /\ call' = [NoCall EXCEPT !.op = "handler_exists_for_event", !.event = e,
                                  !.out = IF handler_exists_for_event(handler_registry,
                                                                      ApiEvents[e])
                                          THEN "true" ELSE "false"]
        /\ UNCHANGED <<procVars, fetchVars, sideVars, handler_registry>>

\* process_events::<STATE, TRANSACTION_CONTEXT> lines 235-271 for one event: past
\* the handler_exists check, the handler it resolves and would invoke
ResolveHandler ==
    \E t \in TypeIds, e \in 1..Len(ApiEvents) :
        /\ handler_exists_for_event(handler_registry, ApiEvents[e])
        /\ call' = [NoCall EXCEPT !.op = "process_events", !.type_id = t, !.event = e,
                                  !.out = resolve_handler(handler_registry, t,
                                                          ApiEvents[e])]
        /\ UNCHANGED <<procVars, fetchVars, sideVars, handler_registry>>

RegistryNext ==
    \/ AddHandler
    \/ SetNativeHandler
    \/ GetHandler
    \/ GetNativeHandler
    \/ HandlerExists
    \/ ResolveHandler

RegistrySpec == RegistryInit /\ [][RegistryNext]_vars

\* the inputs of NativeEventType::resolve: every name of its table and names
\* outside it; the entity types it looks at and others
TableNames ==
    ResourceManagerEvents \cup MetadataEvents \cup FeeEvents \cup AccountLockerEvents
    \cup ValidatorEvents \cup ConsensusManagerEvents \cup RoleAssignmentEvents
    \cup AccountEvents
    \cup {"WithdrawEvent", "DepositEvent", "RecallEvent", "RedemptionEvent",
          "ContributionEvent"}
EventNames == TableNames \cup {"SwapEvent", "InstantiateEvent", "withdrawevent", ""}
EntityTypes ==
    {"GlobalGenericComponent", "InternalGenericComponent", "InternalFungibleVault",
     "InternalNonFungibleVault", "GlobalOneResourcePool", "GlobalTwoResourcePool",
     "GlobalMultiResourcePool", "GlobalAccount", "GlobalVirtualEd25519Account",
     "GlobalVirtualSecp256k1Account", "GlobalPackage", "GlobalValidator",
     "GlobalFungibleResource"}

\* NativeEventType::resolve(event_name, entity_type)
ResolveCall ==
    \E n \in EventNames, et \in EntityTypes :
        /\ call' = [NoCall EXCEPT !.op = "resolve", !.name = n, !.entity_type = et,
                                  !.out = resolve(n, et)]
        /\ UNCHANGED <<procVars, fetchVars, sideVars, handler_registry>>

ResolverSpec == RegistryInit /\ [][ResolveCall]_vars

(* ------- error.rs: From<EventHandlerError> for TransactionHandlerError --- *)
\* the errors an event handler or process_events can hand to the conversion
EventHandlerErrors ==
    {Err(k, Cause(o, sv, i)) :
        k \in {"EventRetryError", "TransactionRetryError", "UnrecoverableError"},
        o \in {"event", "transaction"},
        sv \in 1..Len(LedgerShapes),
        i \in 0..MaxEvents}

\* `?` on an Err(e) of type EventHandlerError inside a transaction handler:
\* From::from(e) (error.rs lines 36-50) gives the handler's result
ConvertError ==
    \E e \in EventHandlerErrors :
        /\ peResult' = e
        /\ thResult' = from_event_error(e)
        /\ UNCHANGED <<fetchVars, apiVars, sideVars, retry_steps, scopeVars>>
        /\ UNCHANGED <<srcVars, cfgVars, pc, runVars, userVars, cur, handler_exists,
                       evIdx, event_handler, ehResult, evHist, txHist, hooks>>

ConversionSpec == RegistryInit /\ [][ConvertError]_vars

(* ------------------------------ claims --------------------------------- *)
Range(seq) == {seq[k] : k \in 1..Len(seq)}
RECURSIVE SumTo(_, _)
SumTo(f, n) == IF n = 0 THEN 0 ELSE f[n] + SumTo(f, n - 1)

\* the processor is inside process_events
InEventLoop == pc \in {"pe_loop", "eh_call", "eh_run", "eh_ret"}
\* the processor is inside the transaction handler
InTransactionHandler == InEventLoop \/ pc \in {"th_body", "th_after"}

\* C1: event retry localises. In one process_events call an event whose handler
\* returned EventRetryError K times and then Ok has had exactly K+1 invocations;
\* events the loop has passed stay at their final count (no re-invocation),
\* events after the current one have had none, and the transaction handler has
\* been invoked exactly once more than it returned TransactionRetryError.
C1_EventRetryLocalises ==
    /\ \A i \in 1..MaxEvents :
          /\ evStatus[i] = "ok" => evInv[i] = evRet[i] + 1
          /\ evStatus[i] = "running" => evInv[i] \in {evRet[i], evRet[i] + 1}
          /\ evStatus[i] \in {"pending", "skipped"} => evInv[i] = 0 /\ evRet[i] = 0
          /\ InEventLoop /\ i > evIdx => evStatus[i] = "pending"
          /\ InEventLoop /\ i < evIdx => evStatus[i] \in {"ok", "skipped"}
    /\ InEventLoop => txInv = txRet + 1

\* C1 witness: the second event succeeded after two EventRetryErrors, the first
\* event's handler ran once, the transaction handler once
C1_Witness ==
    /\ pc = "pe_loop"
    /\ evStatus[1] = "ok" /\ evInv[1] = 1
    /\ evStatus[2] = "ok" /\ evRet[2] = 2 /\ evInv[2] = 3
    /\ txInv = 1

\* C2: transaction retry restarts. The transaction handler is invoked once more
\* than it returned TransactionRetryError (K+1 times when the transaction
\* finishes), every invocation is for the received transaction and starts with
\* no event dispatched, and the transaction is not finished, nor another one
\* handed to the handler, while it is being retried.
C2_TransactionRetryRestarts ==
    /\ InTransactionHandler => txInv = txRet + 1 /\ thActive = 1
    /\ pc = "th_ret" =>
          txInv = txRet + (IF thResult.kind = "TransactionRetryError" THEN 0 ELSE 1)
    /\ pc = "th_call" => txInv = txRet
    /\ pc = "pt_done" /\ handler_exists => txInv = txRet + 1
    /\ pc = "th_body" => attemptInv = 0 /\ evIdx = 0
    /\ txInv > 0 =>
          /\ handled # <<>>
          /\ handled[Len(handled)] = cur.state_version
          /\ cur.state_version \notin Range(done)
          /\ \A k \in 1..(Len(handled) - 1) : handled[k] \in Range(done)

\* C2 witness: a transaction finished after two TransactionRetryErrors
C2_Witness == pc = "pt_done" /\ txRet = 2 /\ txInv = 3

\* C3 (as claimed): when the transaction finished after K retries, every event
\* handler invoked at least once was invoked at least K+1 times.
C3_Original ==
    pc = "pt_done" /\ handler_exists =>
        \A i \in 1..MaxEvents : evTot[i] >= 1 => evTot[i] >= txRet + 1

\* C3 (amended): every process_events call of a handled transaction invokes at
\* least one event handler, the first event that is not skipped, so with the
\* default transaction handler the event handlers are invoked at least K+1 times
\* in total; a single handler may be invoked fewer than K+1 times.
C3_Amended ==
    /\ pc = "th_after" =>
          /\ attemptInv >= 1
          /\ \E i \in 1..Len(cur.events) :
                /\ evInv[i] >= 1
                /\ \A j \in 1..(i - 1) : evStatus[j] = "skipped"
    /\ handlerKind = "default" /\ pc \in {"th_ret", "pt_done"} /\ handler_exists =>
          SumTo(evTot, MaxEvents) >= txInv

\* C3 witness: a transaction finished after a retry, with an event handler that
\* was invoked once only
C3_Witness ==
    /\ pc = "pt_done" /\ handlerKind = "default" /\ txRet >= 1
    /\ \E i \in 1..MaxEvents : evTot[i] >= 1 /\ evTot[i] < txRet + 1

\* C4: event ordering. An event is dispatched only when every earlier event of
\* the transaction was skipped for want of a handler or has returned Ok, all of
\* its retries included; at most one event handler is active.
C4_EventOrdering ==
    /\ evActive \in {0, 1}
    /\ evActive = 1 <=> pc = "eh_run"
    /\ Cardinality({i \in 1..MaxEvents : evStatus[i] = "running"}) <= 1
    /\ \A i \in 1..MaxEvents : \A j \in (i + 1)..MaxEvents :
          evStatus[j] # "pending" => evStatus[i] \in {"ok", "skipped"}
    /\ \A i \in 1..MaxEvents : evStatus[i] = "skipped" => evInv[i] = 0

\* C4 witness: the third event's handler runs after the first event was skipped
\* and the second succeeded on a retry
C4_Witness ==
    /\ pc = "eh_run" /\ evIdx = 3
    /\ evStatus[1] = "skipped"
    /\ evStatus[2] = "ok" /\ evRet[2] >= 1
    /\ evStatus[3] = "running"

\* C5: transaction ordering. Transactions are received in the order they were
\* sent, the handler gets them in increasing state version, every transaction
\* handed over before the current one has finished with Ok, and at most one
\* transaction handler invocation is active.
C5_TransactionOrdering ==
    /\ thActive \in {0, 1}
    /\ thActive = 1 <=> InTransactionHandler
    /\ \A k \in 1..Len(done) : done[k] = from_state_version + k - 1
    /\ cur # NoTx => cur.state_version = from_state_version + Len(done)
    /\ \A k \in 1..(Len(handled) - 1) :
          /\ handled[k] < handled[k + 1]
          /\ handled[k] \in Range(done)
    /\ \A k \in 1..Len(chan) :
          chan[k].state_version = from_state_version + sent - Len(chan) + k - 1

\* C5 witness: the second transaction is being retried by the handler while the
\* first one is done
C5_Witness ==
    /\ entry = "run"
    /\ Len(handled) = 2 /\ Len(done) = 1
    /\ pc = "th_call" /\ txRet >= 1


\* none of the events of the current transaction has a registered handler
NoEventHandled ==
    \A i \in 1..Len(cur.events) : ~handler_exists_for_event(registry, cur.events[i])

\* C6: skip law. Every step process_transaction takes for a transaction none of
\* whose events has a registered handler: the existence check leads to the skip
\* branch, never to the transaction handler; the skip branch has logged exactly
\* receive_transaction(handling=false, is_retry=false) and then logs exactly
\* finish_transaction(handling=false); no transaction or event handler is
\* invoked; the user state and the registry stay as they are; and
\* process_transaction returns success to the loop, which goes on to receive.
C6_SkipLaw ==
    [][ /\ pc = "process_transaction" /\ NoEventHandled /\ pc' # pc
            => /\ pc' = "pt_skip"
               /\ ~handler_exists'
               /\ hooks' = IF loggerOn
                           THEN <<Hook("receive_transaction", 0, FALSE, FALSE, NoCause)>>
                           ELSE <<>>
               /\ UNCHANGED <<registry, state, txInv, evTot, runResult>>
        /\ pc = "pt_skip" /\ pc' # pc
            => /\ NoEventHandled
               /\ pc' = "pt_done"
               /\ hooks' = IF loggerOn
                           THEN <<Hook("receive_transaction", 0, FALSE, FALSE, NoCause),
                                  Hook("finish_transaction", 0, FALSE, FALSE, NoCause)>>
                           ELSE <<>>
               /\ txInv' = 0 /\ evTot' = Zeros
               /\ UNCHANGED <<registry, state, runResult>>
        /\ pc = "pt_done" /\ ~handler_exists /\ pc' # pc
            => /\ NoEventHandled
               /\ txInv = 0 /\ evTot = Zeros
               /\ pc' = "recv"
               /\ runResult' = Running
               /\ done' = Append(done, cur.state_version)
               /\ UNCHANGED <<registry, state>>
      ]_vars

\* a transaction with events, none of them handled, has been skipped with logging on
C6_Witness ==
    /\ pc = "pt_done" /\ ~handler_exists /\ loggerOn
    /\ Len(cur.events) > 0 /\ Len(hooks) = 2 /\ txInv = 0

\* C7: unrecoverable terminates. Once a handler has raised UnrecoverableError(e),
\* the error is on its way out unchanged (event handler result, process_events
\* result, transaction handler result) or run/process_transactions has returned
\* UnrecoverableError(e); the handler that raised it is not invoked again, the
\* transaction it was raised for is the last one handed to a handler, and the
\* processor result is never anything but Ok or UnrecoverableError.
C7_UnrecoverableTerminates ==
    /\ runResult.kind \in {"Running", "Ok", "UnrecoverableError"}
    /\ lastUnrecoverable # NoCause =>
          /\ \/ pc = "eh_ret" /\ ehResult = Err("UnrecoverableError", lastUnrecoverable)
             \/ pc = "th_after" /\ peResult = Err("UnrecoverableError", lastUnrecoverable)
             \/ pc = "th_ret" /\ thResult = Err("UnrecoverableError", lastUnrecoverable)
             \/ pc = "returned" /\ runResult = Err("UnrecoverableError", lastUnrecoverable)
          /\ lastUnrecoverable[2] = cur.state_version
          /\ txInv = txRet + 1
          /\ handled # <<>> /\ handled[Len(handled)] = cur.state_version
          /\ cur.state_version \notin Range(done)
          /\ \A k \in 1..Len(chan) : chan[k].state_version > cur.state_version
          /\ \A k \in 1..Len(chan) : chan[k].state_version \notin Range(handled)

\* the processor returned an event handler's UnrecoverableError, raised after a
\* retry of the transaction, with a later transaction still waiting
C7_Witness ==
    /\ pc = "returned" /\ lastUnrecoverable[1] = "event"
    /\ runResult = Err("UnrecoverableError", lastUnrecoverable)
    /\ chan # <<>> /\ txRet >= 1

\* C8: clean exit. The processor has returned exactly when it has a result, the
\* result is Ok or UnrecoverableError, and it is Ok only when every sender was
\* dropped, the queue is empty and every transaction that was sent has been
\* processed, in the order it was sent.
C8_CleanExit ==
    /\ (pc = "returned") <=> (runResult # Running)
    /\ pc = "returned" => runResult.kind \in {"Ok", "UnrecoverableError"}
    /\ runResult.kind = "Ok" =>
          /\ ~senderOpen
          /\ chan = <<>>
          /\ cur = NoTx
          /\ Len(done) = sent
          /\ \A k \in 1..Len(done) : done[k] = from_state_version + k - 1

\* run returned Ok after the sender sent two transactions and was dropped
C8_Witness ==
    /\ entry = "run" /\ pc = "returned" /\ runResult = Ok
    /\ Len(done) = 2 /\ sent = 2 /\ periodic = "aborted"

\* C9: processor exit aborts the periodic-report task. Whenever run has returned,
\* the task it spawned is not running and has issued no report since.
C9_PeriodicAborted ==
    pc = "returned" /\ entry = "run" => periodic # "running" /\ ~reportAfterReturn

\* C10: EventRetry never escalates. Whatever the handlers return, the result of
\* process_events is Ok, TransactionRetryError or UnrecoverableError, and the
\* conversion of it in the transaction handler never panics.
C10_EventRetryNeverEscalates ==
    /\ peResult.kind \in {"Ok", "TransactionRetryError", "UnrecoverableError"}
    /\ thResult # Panic
    /\ thResult.kind \in {"Ok", "TransactionRetryError", "UnrecoverableError"}
    /\ pc # "panicked"

\* process_events of the default transaction handler returns a TransactionRetryError
\* after an event of the call was retried
C10_Witness ==
    /\ pc = "th_after" /\ handlerKind = "default"
    /\ peResult.kind = "TransactionRetryError"
    /\ \E i \in 1..MaxEvents : evRet[i] >= 1 /\ evStatus[i] = "failed"

\* the userspace handler registered under the event's address and name
RegisteredFor(event) == Get(registry.handlers, <<event.emitter.address, event.name>>)
\* the events whose handler the policy looks up in the userspace table
Userspace(event) ==
    \/ event.emitter.type = "Function"
    \/ /\ event.emitter.type = "Method"
       /\ event.emitter.object_module_id = "Main"
       /\ event.emitter.entity_type \in
             {"GlobalGenericComponent", "InternalGenericComponent"}
\* the step is one of the event loop at its head, or of process_transaction's check
LoopStep == pc = "pe_loop" /\ (pc' # pc \/ evIdx' # evIdx)

\* C21: mid-stream registry mutation is visible. Handlers only add to the
\* registry; whenever the event loop reaches a userspace event for which a
\* handler is registered by then (by the handler of an earlier event of the same
\* transaction or of an earlier transaction), it dispatches the event to that
\* handler; and a transaction that arrives with such an event is handed to the
\* transaction handler.
C21_MutationVisible ==
    [][ /\ DOMAIN registry.handlers \subseteq DOMAIN registry'.handlers
        /\ LoopStep /\ evIdx <= Len(cur.events) /\ Userspace(CurEvent)
           /\ RegisteredFor(CurEvent) # None
              => /\ pc' = "eh_call"
                 /\ evIdx' = evIdx
                 /\ event_handler' = RegisteredFor(CurEvent)
        /\ pc = "process_transaction" /\ pc' # pc
           /\ (\E i \in 1..Len(cur.events) :
                  Userspace(cur.events[i]) /\ RegisteredFor(cur.events[i]) # None)
              => handler_exists' /\ pc' = "th_call"
      ]_vars

\* T1 carried the InstantiateEvent whose handler registered the SwapEvent handler
\* of A, and T2's SwapEvent from A is being handled by it
C21_Witness ==
    /\ from_state_version = 1 /\ done = <<1>> /\ cur.state_version = 2
    /\ cur.events = <<EvSwap>>
    /\ pc = "eh_run" /\ event_handler = "handle_swap"

\* the scoped-context bookkeeping of the current transaction
C22_Context == transaction_context

\* C22: transaction retry rebuilds scope. A user transaction handler has begun
\* one scoped context per invocation; at most one context is open, and only
\* while the handler runs; every context of an invocation that returned an error
\* was dropped without commit before the next invocation began; a commit
\* happens once only, on the context of the last invocation, after
\* process_events returned Ok; so a transaction that finishes after K
\* TransactionRetryErrors has had K+1 contexts, K dropped and one committed.
C22_RetryRebuildsScope ==
    /\ handlerKind = "default" => transaction_context = NoContext
    /\ handlerKind = "custom" =>
          /\ C22_Context.created = txInv
          /\ C22_Context.live <=> InTransactionHandler
          /\ C22_Context.created =
                C22_Context.committed + C22_Context.dropped
                + (IF C22_Context.live THEN 1 ELSE 0)
          /\ C22_Context.committed <= 1
          /\ C22_Context.committed = 1 =>
                /\ C22_Context.last_committed = C22_Context.created
                /\ thResult = Ok
                /\ pc \in {"th_ret", "pt_done"}
          /\ pc = "th_call" => ~C22_Context.live /\ C22_Context.dropped = txRet
          /\ pc = "th_ret" /\ thResult.kind = "TransactionRetryError" =>
                C22_Context.dropped = txRet /\ C22_Context.committed = 0
          /\ pc = "pt_done" /\ handler_exists =>
                /\ C22_Context.created = txRet + 1
                /\ C22_Context.committed = 1
                /\ C22_Context.dropped = txRet

\* a transaction finished after an event handler asked twice for a retry of the
\* transaction: three contexts, two dropped, the third committed
C22_Witness ==
    /\ pc = "pt_done" /\ handlerKind = "custom" /\ loggerOn /\ txRet = 2
    /\ transaction_context =
          [created |-> 3, committed |-> 1, dropped |-> 2, live |-> FALSE,
           last_committed |-> 3]
    /\ \A k \in 1..Len(hooks) :
          hooks[k].hook = "transaction_retry_error" => hooks[k].cause[1] = "event"

\* C24: TransactionRetryError and UnrecoverableError leave process_events at once.
\* When an event handler returns one of them, the next step of process_events is
\* its return, with that very error and without another handler invocation;
\* the failed event was not retried after it and no later event of the
\* transaction was dispatched in that call; the default transaction handler
\* returns an error of the same kind and cause.
C24_Failed ==
    pc = "th_after" /\ peResult.kind # "Ok" =>
        /\ peResult.kind \in {"TransactionRetryError", "UnrecoverableError"}
        /\ peResult.cause = Cause("event", cur.state_version, evIdx)
        /\ evStatus[evIdx] = "failed"
        /\ evInv[evIdx] = evRet[evIdx] + 1
        /\ \A j \in (evIdx + 1)..MaxEvents : evStatus[j] = "pending" /\ evInv[j] = 0
C24_Propagates ==
    [][ /\ pc = "eh_ret" /\ pc' # pc
           /\ ehResult.kind \in {"TransactionRetryError", "UnrecoverableError"}
              => /\ pc' = "th_after"
                 /\ peResult' = ehResult
                 /\ UNCHANGED <<evInv, evTot, attemptInv, evIdx>>
        /\ pc = "th_after" /\ pc' # pc /\ peResult.kind # "Ok"
           /\ handlerKind = "default"
              => /\ thResult'.kind = peResult.kind
                 /\ thResult'.cause = peResult.cause
                 /\ UNCHANGED <<evInv, evTot, attemptInv>>
      ]_vars
C24_ErrorsPropagate == []C24_Failed /\ C24_Propagates

\* the default transaction handler has returned the UnrecoverableError of the
\* first event's handler, raised after a retry of that event; the second event
\* was not dispatched
C24_Witness ==
    /\ pc = "th_ret" /\ handlerKind = "default"
    /\ thResult = Err("UnrecoverableError", Cause("event", cur.state_version, 1))
    /\ evStatus[1] = "failed" /\ evRet[1] >= 1
    /\ Len(cur.events) >= 2 /\ evStatus[2] = "pending"

\* C25: conversion rule. The conversion maps TransactionRetryError(e) to
\* TransactionRetryError(e) and UnrecoverableError(e) to UnrecoverableError(e),
\* the cause unchanged, and panics on EventRetryError: no transaction-level
\* error comes out of it.
C25_ConversionRule ==
    /\ peResult.kind = "TransactionRetryError" =>
          thResult = [kind |-> "TransactionRetryError", cause |-> peResult.cause]
    /\ peResult.kind = "UnrecoverableError" =>
          thResult = [kind |-> "UnrecoverableError", cause |-> peResult.cause]
    /\ peResult.kind = "EventRetryError" =>
          /\ thResult = Panic
          /\ thResult.kind \notin {"TransactionRetryError", "UnrecoverableError", "Ok"}

\* the conversion was given an EventRetryError and panicked
C25_Witness ==
    /\ peResult = Err("EventRetryError", Cause("event", 2, 1))
    /\ thResult.kind = "panic" /\ pc = "none"

\* C26 (as claimed): an event that some process_events call found without a
\* handler is never dispatched while its transaction is processed, whatever
\* retries occur.
C26_Original == \A i \in 1..MaxEvents : evSkipped[i] => evTot[i] = 0

\* C26 (amended): no retroactive dispatch within a process_events call. The loop
\* never goes back: an event it skipped for want of a handler lies before the
\* loop's position and stays skipped, with no handler invocation, until the
\* call is over, whatever event retries occur and whatever handlers are
\* registered meanwhile; only a new process_events call, made when the
\* transaction handler is invoked again, looks at the event again.
C26_NoRetroactiveDispatch ==
    [][ /\ \A i \in 1..MaxEvents :
              /\ evStatus[i] = "skipped" =>
                    /\ evInv[i] = 0
                    /\ evSkipped[i]
                    /\ InEventLoop => i < evIdx
              /\ evStatus[i] = "skipped" /\ evStatus'[i] # "skipped" =>
                    \/ pc = "th_body" /\ pc' = "pe_loop" /\ evIdx' = 1 /\ txInv >= 2
                    \/ pc = "pt_done" /\ pc' = "recv"
        /\ InEventLoop /\ pc' \in {"pe_loop", "eh_call", "eh_run", "eh_ret"} =>
              evIdx' >= evIdx
      ]_vars

\* the first event was skipped, the second event's handler registered a handler
\* that matches the first, after a retry, and the third event is being handled
C26_Witness ==
    /\ pc = "eh_run" /\ evIdx = 3
    /\ cur.events[1] = EvSwap /\ evStatus[1] = "skipped" /\ evTot[1] = 0
    /\ RegisteredFor(EvSwap) = "handle_swap"
    /\ evStatus[2] = "ok" /\ evRet[2] >= 1

\* what the fetcher has sent and what it still holds of the batch it fetched
Fetched == sentLog \o transactions

\* C11 (safety part): the channel never holds more than Capacity transactions;
\* the fetcher returns only after the receiver was dropped; while a fetched
\* transaction waits for room the fetcher stays at its send and fetches nothing
\* further; and nothing is dropped or reordered: what the consumer received
\* followed by what is queued is what was sent, and what was sent followed by
\* the rest of the batch is the ledger's matching rows without a gap, up to the
\* cursor.
C11_Bounded ==
    /\ Len(fchan) <= Capacity
    /\ fpc = "returned" => ~receiverOpen
    /\ transactions # <<>> => fpc \in {"send", "returned"}
    /\ receiverOpen => sentLog = delivered \o fchan
    /\ Fetched # <<>> =>
          /\ Fetched = fetch_all(Fetched[1], Len(Fetched), ledger_tip)
          /\ fetcher_state_version = Fetched[Len(Fetched)] + 1

\* C11 (progress part): with a consumer that keeps receiving, every transaction
\* the fetcher holds or has queued is eventually delivered, unless the receiver
\* is dropped.
C11_Delivered ==
    \A sv \in 1..MaxSv :
        (sv \in Range(transactions) \cup Range(fchan))
            ~> (sv \in Range(delivered) \/ ~receiverOpen)

\* C11: backpressure. The bound and the order hold in every state, and every
\* fetched transaction is eventually delivered once the consumer receives again.
C11_Backpressure == []C11_Bounded /\ C11_Delivered

\* the channel is full, the fetcher waits in send with a transaction in hand,
\* and the consumer has received before
C11_Witness ==
    /\ Len(fchan) = Capacity /\ fpc = "send" /\ transactions # <<>>
    /\ receiverOpen /\ delivered # <<>>

\* C12: drop terminates the producer. Once the receiver is dropped the fetcher
\* task eventually returns, whatever it was doing at the time.
C12_DropTerminates == (~receiverOpen) ~> (fpc = "returned")

\* C13: source ordering. The state versions the fetcher sends are strictly
\* increasing over the whole run: none twice, none after a larger one.
C13_SourceOrdering ==
    \A i, j \in 1..Len(sentLog) : i < j => sentLog[i] < sentLog[j]

\* three sends over several batches, across a rejected row, with an empty batch
\* and a failed fetch in between
C13_Witness ==
    /\ Len(sentLog) >= 3
    /\ pollLog = {"empty", "failed"}
    /\ \E k \in 1..(Len(sentLog) - 1) : sentLog[k + 1] > sentLog[k] + 1

\* an insertion call was made with a fingerprint other than the recorded one
InsertMismatch(before, c) == before.type_id # None /\ c.type_id # before.type_id

\* C14: registration homogeneity. Every add_handler / set_native_handler call with
\* a fingerprint other than the recorded one panics and leaves the registry as
\* it was; any other insertion succeeds and the registry then records the call's
\* fingerprint; a recorded fingerprint never changes; and there is one
\* fingerprint for both tables, recorded exactly when either table has an entry.
C14_RegistrationHomogeneity ==
    [][ /\ call'.op \in {"add_handler", "set_native_handler"} =>
              IF InsertMismatch(handler_registry, call')
              THEN call'.out = "panic" /\ handler_registry' = handler_registry
              ELSE call'.out = "ok" /\ handler_registry'.type_id = call'.type_id
        /\ handler_registry.type_id # None =>
              handler_registry'.type_id = handler_registry.type_id
        /\ (handler_registry'.type_id = None) <=>
              (handler_registry'.handlers = EmptyFn
               /\ handler_registry'.native_handlers = EmptyFn)
      ]_vars

\* the fingerprint was recorded by a native insertion, and an add_handler call with
\* the other fingerprint panicked and inserted nothing
C14_Witness ==
    /\ call.op = "add_handler" /\ call.out = "panic"
    /\ handler_registry.native_handlers # EmptyFn
    /\ handler_registry.handlers = EmptyFn
    /\ handler_registry.type_id \in TypeIds \ {call.type_id}

\* C15: a lookup with a fingerprint other than the recorded one (get_handler,
\* get_native_handler, and the handler resolution of process_events) panics
\* instead of returning a handler, so process_events invokes none.
C15_LookupMismatchFails ==
    /\ call.op \in {"get_handler", "get_native_handler", "process_events"}
       /\ handler_registry.type_id # None
       /\ call.type_id # handler_registry.type_id
          => call.out = "panic"
    /\ call.op = "process_events" /\ call.out # "panic"
          => call.type_id = handler_registry.type_id /\ call.out \in Handlers

\* process_events was called with the other transaction-context type for an event
\* that has a handler, and panicked
C15_Witness ==
    /\ call.op = "process_events" /\ call.out = "panic"
    /\ handler_registry.type_id = TheTypeId /\ call.type_id = OtherTypeId
    /\ handler_exists_for_event(handler_registry, ApiEvents[call.event])

\* C16: optional retrieval. In every registry built by insertions, the empty one
\* included, get_handler and get_native_handler (called with the registry's own
\* signature, or any signature while none is recorded) return the handler
\* registered under the key, and absent when there is none.
C16_OptionalRetrieval ==
    /\ call.op = "get_handler" /\ handler_registry.type_id \in {None, call.type_id}
          => call.out = Get(handler_registry.handlers, <<call.emitter, call.name>>)
    /\ call.op = "get_native_handler"
       /\ handler_registry.type_id \in {None, call.type_id}
          => call.out = Get(handler_registry.native_handlers, call.kind)

\* C17: insert or replace. A successful add_handler(e, n, h) makes the lookup of
\* (e, n) return h whatever was there, and leaves every other userspace key and
\* the whole native table as they were; a successful set_native_handler(k, h)
\* does the same for the native entry k and leaves the userspace table alone.
C17_InsertOrReplace ==
    [][ /\ call'.op = "add_handler" /\ call'.out = "ok" =>
              /\ get_handler(handler_registry', call'.type_id, call'.emitter,
                             call'.name) = call'.handler
              /\ DOMAIN handler_registry'.handlers =
                    DOMAIN handler_registry.handlers \cup {<<call'.emitter, call'.name>>}
              /\ \A k \in UserKeys \ {<<call'.emitter, call'.name>>} :
                    Get(handler_registry'.handlers, k) = Get(handler_registry.handlers, k)
              /\ handler_registry'.native_handlers = handler_registry.native_handlers
        /\ call'.op = "set_native_handler" /\ call'.out = "ok" =>
              /\ get_native_handler(handler_registry', call'.type_id, call'.kind)
                    = call'.handler
              /\ DOMAIN handler_registry'.native_handlers =
                    DOMAIN handler_registry.native_handlers \cup {call'.kind}
              /\ \A k \in NativeKinds \ {call'.kind} :
                    Get(handler_registry'.native_handlers, k)
                       = Get(handler_registry.native_handlers, k)
              /\ handler_registry'.handlers = handler_registry.handlers
      ]_vars

\* add_handler replaced h1 by h2 under a key, with another userspace key and a
\* native entry registered
C17_Witness ==
    /\ call.op = "add_handler" /\ call.out = "ok"
    /\ call.replaced = "h1" /\ call.handler = "h2"
    /\ Get(handler_registry.handlers, <<call.emitter, call.name>>) = "h2"
    /\ Cardinality(DOMAIN handler_registry.handlers) >= 2
    /\ handler_registry.native_handlers # EmptyFn

\* the handler-exists policy, case by case
GenericMain(emitter) ==
    /\ emitter.type = "Method"
    /\ emitter.object_module_id = "Main"
    /\ emitter.entity_type \in {"GlobalGenericComponent", "InternalGenericComponent"}
NativeClassified(event) == event.emitter.type = "Method" /\ ~GenericMain(event.emitter)
Policy(r, event) ==
    \/ /\ event.emitter.type = "Function"
       /\ <<event.emitter.address, event.name>> \in DOMAIN r.handlers
    \/ /\ GenericMain(event.emitter)
       /\ <<event.emitter.address, event.name>> \in DOMAIN r.handlers
    \/ /\ NativeClassified(event)
       /\ resolve(event.name, event.emitter.entity_type) # None
       /\ resolve(event.name, event.emitter.entity_type) \in DOMAIN r.native_handlers
AllUserKeys == [k \in UserKeys |-> "h1"]
AllNativeKinds == [k \in NativeKinds |-> "h1"]

\* C18: handler-exists policy. handler_exists_for_event is true exactly in the
\* three cases of the policy; for a native-classified event the userspace table
\* has no influence on it, for the other events the native table has none.
C18_HandlerExistsPolicy ==
    /\ \A e \in 1..Len(ApiEvents) :
          LET event == ApiEvents[e]
              exists == handler_exists_for_event(handler_registry, event)
          IN  /\ exists = Policy(handler_registry, event)
              /\ NativeClassified(event) =>
                    \A hs \in {EmptyFn, AllUserKeys} :
                        handler_exists_for_event(
                            [handler_registry EXCEPT !.handlers = hs], event) = exists
              /\ ~NativeClassified(event) =>
                    \A ns \in {EmptyFn, AllNativeKinds} :
                        handler_exists_for_event(
                            [handler_registry EXCEPT !.native_handlers = ns], event)
                           = exists
    /\ call.op = "handler_exists_for_event" =>
          call.out = IF Policy(handler_registry, ApiEvents[call.event])
                     THEN "true" ELSE "false"

\* handler_exists_for_event said no for the metadata-module event although the
\* userspace table has an entry under its address and name
C18_Witness ==
    /\ call.op = "handler_exists_for_event" /\ call.out = "false"
    /\ ApiEvents[call.event] = EvSetMetadata
    /\ <<"A", "SetMetadataEvent">> \in DOMAIN handler_registry.handlers

\* the names whose result does not depend on the entity type
UniqueNames ==
    TableNames \ {"WithdrawEvent", "DepositEvent", "RecallEvent", "RedemptionEvent",
                  "ContributionEvent"}
\* the family WithdrawEvent and DepositEvent belong to, by entity type
FamilyByEntityType(entity_type) ==
    IF entity_type = "InternalFungibleVault" THEN "FungibleVault"
    ELSE IF entity_type = "InternalNonFungibleVault" THEN "NonFungibleVault"
    ELSE IF entity_type = "GlobalOneResourcePool" THEN "OneResourcePool"
    ELSE IF entity_type = "GlobalTwoResourcePool" THEN "TwoResourcePool"
    ELSE IF entity_type = "GlobalMultiResourcePool" THEN "MultiResourcePool"
    ELSE IF entity_type \in {"GlobalAccount", "GlobalVirtualEd25519Account",
                             "GlobalVirtualSecp256k1Account"} THEN "Account"
    ELSE None

\* C19: the native resolver is a total function of (event name, entity type). A
\* unique name resolves to one kind whatever the entity type; WithdrawEvent and
\* DepositEvent resolve to the family the entity type selects and to "not
\* native" for any other entity type; a name outside the table is not native.
C19_NativeResolver ==
    call.op = "resolve" =>
        /\ call.out = resolve(call.name, call.entity_type)
        /\ call.name \in UniqueNames =>
              /\ call.out # None
              /\ \A et \in EntityTypes : resolve(call.name, et) = call.out
        /\ call.name = "VaultCreationEvent" =>
              call.out = "ResourceManager::VaultCreationEvent"
        /\ call.name = "SetMetadataEvent" => call.out = "Metadata::SetMetadataEvent"
        /\ call.name \in {"WithdrawEvent", "DepositEvent"} =>
              call.out = IF FamilyByEntityType(call.entity_type) = None THEN None
                         ELSE FamilyByEntityType(call.entity_type) \o "::" \o call.name
        /\ call.name \notin TableNames => call.out = None

\* DepositEvent of a virtual account resolved to the Account family
C19_Witness ==
    /\ call.op = "resolve" /\ call.name = "DepositEvent"
    /\ call.entity_type = "GlobalVirtualEd25519Account"
    /\ call.out = "Account::DepositEvent"

\* C20: native dispatch. For an event the policy classifies as native,
\* process_events resolves the handler registered in the native table for the
\* resolved kind, whatever the userspace table holds under the event's address
\* and name.
C20_NativeDispatch ==
    call.op = "process_events" /\ call.type_id = handler_registry.type_id
    /\ NativeClassified(ApiEvents[call.event])
        => call.out = Get(handler_registry.native_handlers,
                          resolve(ApiEvents[call.event].name,
                                  ApiEvents[call.event].emitter.entity_type))

\* the largest state version of a batch
MaxOf(batch) == CHOOSE m \in Range(batch) : \A x \in Range(batch) : x <= m
\* the step is a poll: next_batch has returned
Polled ==
    /\ fpc = "next_batch" /\ fpc' # "aborted"
    /\ (fpc' # fpc \/ failed_polls' # failed_polls)

\* the fetcher's Sender is gone: the task has returned or was cancelled
SenderReleased == fpc \in {"returned", "aborted"}
\* the step is a stop() call
Stopped == stops' # stops
\* what a stop() call leaves alone when it finds no JoinHandle
StreamState ==
    <<ledger_tip, fetcher_state_version, transactions, fpc, fchan, receiverOpen,
      delivered, sentLog, pollLog, response, failed_polls, slept, join_handle,
      abort_requested>>

C23_Stopped ==
    [][ /\ Stopped /\ join_handle = "Some" =>
              /\ abort_requested' /\ join_handle' = "None"
              /\ UNCHANGED <<fpc, fchan, sentLog, transactions, receiverOpen>>
        /\ Stopped /\ join_handle = "None" => UNCHANGED StreamState
        /\ abort_requested =>
              /\ ~Polled
              /\ UNCHANGED <<slept, response, fetcher_state_version>>
              /\ sentLog' # sentLog =>
                    /\ fpc = "send" /\ Len(fchan) < Capacity
                    /\ sentLog' \o transactions' = sentLog \o transactions
        /\ fpc = "aborted" =>
              /\ fpc' = "aborted" /\ abort_requested
              /\ UNCHANGED <<sentLog, transactions>>
              /\ \/ fchan' \in {fchan, <<>>}
                 \/ fchan # <<>> /\ fchan' = Tail(fchan)
      ]_vars

\* C23 (amended, progress part): after stop() on a started stream the Sender is
\* released and the receiver, once it has drained the queue, reports closed.
C23_Closed ==
    abort_requested ~> (~receiverOpen \/ (SenderReleased /\ loop_ends(fchan, FALSE)))

C27_CursorAdvance ==
    [][ /\ fetcher_state_version' >= fetcher_state_version
        /\ Polled /\ response' = "batch" =>
              /\ transactions' # <<>>
              /\ fetcher_state_version' = MaxOf(transactions') + 1
        /\ Polled /\ response' \in {"empty", "failed"} =>
              /\ transactions' = <<>>
              /\ fetcher_state_version' = fetcher_state_version
        /\ ~Polled => fetcher_state_version' = fetcher_state_version
      ]_vars

\* the cursor has moved past a rejected row with the last batch, and stayed there
\* over an empty batch and a failed query
C27_Witness ==
    /\ fetcher_state_version = 5 /\ sentLog = <<2, 4>>
    /\ pollLog = {"empty", "failed"} /\ response = "failed"

\* C28: catch-up policy. The fetcher issues a poll after an empty batch only
\* when it has slept the caught-up interval since; it sleeps only after an
\* empty batch.
C28_CatchUpPolicy ==
    /\ fpc = "next_batch" /\ response = "empty" => slept
    /\ fpc = "sleep" => response = "empty" /\ ~slept
    /\ slept => response = "empty"

\* the fetcher polls again after it has slept on an empty batch, with the
\* ledger's matching rows all sent
C28_Witness ==
    /\ fpc = "next_batch" /\ response = "empty" /\ slept
    /\ sentLog # <<>> /\ fetcher_state_version = ledger_tip + 1

\* C29: transient poll errors do not surface. A failed poll sends nothing, leaves
\* the queue, the receiver and the cursor as they are and the task in its loop
\* with the sender alive; the next thing the task does is another poll, also
\* after several failures in a row.
C29_TransientErrors ==
    [][ /\ Polled /\ response' = "failed" =>
              /\ fpc' = "next_batch"
              /\ failed_polls' = failed_polls + 1
              /\ UNCHANGED <<fchan, sentLog, delivered, receiverOpen, transactions,
                             fetcher_state_version>>
        /\ response = "failed" /\ fpc' # fpc => Polled
        /\ response = "failed" => fpc = "next_batch"
      ]_vars

\* two polls failed in a row while the consumer holds what was sent before, and
\* the task is polling again
C29_Witness ==
    /\ failed_polls = 2 /\ response = "failed" /\ fpc = "next_batch"
    /\ receiverOpen /\ delivered # <<>> /\ sentLog = delivered \o fchan

\* C30: back-off floor on transient errors. The fetcher issues a poll after a
\* failed poll only when it has slept the caught-up interval since.
C30_BackoffFloor == fpc = "next_batch" /\ response = "failed" => slept

(* ------------------------- the channel source --------------------------- *)
\* C31: channel source. The stream owns the Receiver of the one channel made by
\* new until start hands it out, and never hands out a second one: a start call
\* on a stream whose Receiver was taken panics and changes nothing. start spawns
\* no task. What the consumer received, followed by what is queued, is what was
\* sent on the Sender, in send order, and recv() yields None only when every
\* Sender is dropped and everything sent was received.
C31_OneChannel ==
    /\ handed_out <= 1
    /\ (handed_out = 1) = (receiver = "None")
    /\ fpc = "none" /\ join_handle = "None"
    /\ receiver_alive => delivered \o fchan = sentLog
    /\ receiver = "Some" => delivered = <<>> /\ start_result = "none"
    /\ recv_none => senders = 0 /\ delivered = sentLog /\ handed_out = 1
    /\ start_result = "panic" => handed_out = 1

C31_SecondStart ==
    [][receiver = "None" /\ start_result' # start_result
         => /\ start_result' = "panic"
            /\ UNCHANGED <<receiver, handed_out, fetchVars>>]_vars

C31_ChannelSource == []C31_OneChannel /\ C31_SecondStart

\* the consumer received three transactions and the closed channel, and a second
\* start has panicked
C31_Witness ==
    /\ recv_none
    /\ start_result = "panic"
    /\ delivered = <<1, 2, 3>>
    /\ handed_out = 1
(* ----------------------------- start failure ---------------------------- *)
\* C32: start failure. run leaves the start step either with the producer
\* launched or with the UnrecoverableError that carries the start error; in the
\* second case run has returned, no producer was launched and nothing was sent,
\* no periodic-report task was spawned, no transaction handler and no event
\* handler was invoked, no hook was called, and state and registry are as given.
C32_StartFailed == runResult = Err("UnrecoverableError", Cause("start", 0, 0))

C32_StartFailure ==
    /\ pc = "start" => join_handle = "None" /\ runResult = Running
    /\ entry = "run" /\ pc # "start" => (join_handle = "None") = C32_StartFailed
    /\ C32_StartFailed =>
          /\ pc = "returned"
          /\ join_handle = "None"
          /\ sent = 0 /\ chan = <<>>
          /\ periodic = "none" /\ ~reportAfterReturn
          /\ handled = <<>> /\ done = <<>>
          /\ txInv = 0 /\ thActive = 0
          /\ evTot = Zeros /\ evActive = 0
          /\ hooks = <<>>
          /\ state = 0 /\ registry \in InitialRegistries

\* start has failed in a run that has a logger and a custom transaction handler
C32_Witness == C32_StartFailed /\ loggerOn /\ handlerKind = "custom" /\ ~senderOpen
(* --------------------------- the logger hooks --------------------------- *)
\* the hooks called since the transaction handler was last entered
AttemptHooks ==
    LET starts == {k \in 1..Len(hooks) : hooks[k].hook = "receive_transaction"}
        last == CHOOSE m \in starts : \A k \in starts : k <= m
    IN  IF starts = {} THEN hooks ELSE SubSeq(hooks, last + 1, Len(hooks))
\* the calls of one hook for the event at position i, in order
EventHooks(name, i) ==
    SelectSeq(AttemptHooks, LAMBDA h : h.hook = name /\ h.idx = i)

RetryArm(hook, receive, delay, cause) ==
    (IF loggerOn THEN <<Step(hook, delay, cause)>> ELSE <<>>)
    \o <<Step("sleep", delay, NoCause)>>
    \o (IF loggerOn THEN <<Step(receive, "none", NoCause)>> ELSE <<>>)

\* C34: retry step order. A handler that returned its retry error is invoked
\* again, and between the return and the re-invocation the processor calls the
\* matching retry hook with the cause of that error and the configured delay,
\* sleeps that delay once, and calls the receive hook with is_retry = true, in
\* this order (without a logger: the sleep alone). A first invocation has no
\* such steps before it; no re-invocation is without the sleep.
C34_AtCall ==
    /\ pc = "eh_call" =>
          /\ (retry_steps = <<>>) = (evInv[evIdx] = 0)
          /\ evInv[evIdx] > 0 =>
                \E k \in 1..Len(retry_steps) :
                    retry_steps[k] = Step("sleep", "event_retry_interval", NoCause)
    /\ pc = "th_call" =>
          /\ (retry_steps = <<>>) = (txInv = 0)
          /\ txInv > 0 =>
                \E k \in 1..Len(retry_steps) :
                    retry_steps[k] = Step("sleep", "transaction_retry_delay", NoCause)

C34_Arms ==
    [][/\ pc = "eh_ret" /\ ehResult.kind = "EventRetryError" /\ pc' # pc =>
             /\ pc' = "eh_call"
             /\ retry_steps' = RetryArm("event_retry_error", "receive_event",
                                        "event_retry_interval", ehResult.cause)
             /\ hooks' = Log(<<Hook("event_retry_error", evIdx, FALSE, FALSE,
                                    ehResult.cause),
                               Hook("receive_event", evIdx, TRUE, TRUE, NoCause)>>)
       /\ pc = "th_ret" /\ thResult.kind = "TransactionRetryError" /\ pc' # pc =>
             /\ pc' = "th_call"
             /\ retry_steps' = RetryArm("transaction_retry_error", "receive_transaction",
                                        "transaction_retry_delay", thResult.cause)
             /\ hooks' = Log(<<Hook("transaction_retry_error", 0, FALSE, FALSE,
                                    thResult.cause),
                               Hook("receive_transaction", 0, TRUE, TRUE, NoCause)>>)
       /\ pc \in {"eh_call", "th_call"} /\ pc' # pc => pc' \in {"eh_run", "th_body"}]_vars

C34_RetryStepOrder == []C34_AtCall /\ C34_Arms

\* with a logger: a transaction handler is about to be re-invoked after an event
\* handler of the attempt had been re-invoked as well
C34_Witness ==
    /\ loggerOn
    /\ pc = "th_call"
    /\ txInv = 1
    /\ Len(retry_steps) = 3
    /\ \E k \in 1..Len(hooks) : hooks[k].hook = "event_retry_error"
(* ------------------------- the handler of a retry ----------------------- *)
\* the processor is between the dispatch of an event and the end of its handling
C35_Handling == {"eh_call", "eh_run", "eh_ret"}

\* C35: retry re-invokes the same handler. The handler of an event is resolved
\* from the registry when the event is dispatched; from then until the event is
\* left, through every retry, the handler, the event, its index and the
\* transaction stay the same, whatever the attempts do to the registry. A
\* handler returning EventRetryError is invoked again. A changed registry entry
\* is what a later dispatch resolves.
C35_SameHandler ==
    [][/\ pc = "pe_loop" /\ pc' = "eh_call" =>
             event_handler' = resolve_handler(registry, TheTypeId, CurEvent)
       /\ pc \in C35_Handling /\ pc' \in C35_Handling =>
             UNCHANGED <<event_handler, evIdx, cur>>
       /\ pc = "eh_ret" /\ ehResult.kind = "EventRetryError" /\ pc' # pc =>
             pc' = "eh_call"
       /\ pc = "eh_call" /\ pc' # pc => pc' = "eh_run"]_vars

\* handle_swap runs for the second time although its first attempt has replaced
\* its registry entry
C35_Witness ==
    /\ pc = "eh_run"
    /\ evInv[evIdx] = 2
    /\ event_handler = "handle_swap"
    /\ resolve_handler(registry, TheTypeId, CurEvent) = "handle_swap_v2"
(* ----------------------- resolution after the check --------------------- *)
\* C36: handler resolution never faults after the existence check. No call of
\* the registry takes a handler away: an event that has a handler keeps having
\* one, whatever add_handler and set_native_handler calls follow. Whenever
\* handler_exists_for_event is true of an event, resolving it with the type
\* parameters of the registry's fingerprint yields a registered handler, never
\* a panic and never nothing.
C36_Resolves ==
    /\ \A e \in 1..Len(ApiEvents) :
          handler_exists_for_event(handler_registry, ApiEvents[e]) =>
             resolve_handler(handler_registry, handler_registry.type_id, ApiEvents[e])
                \in Handlers
    /\ call.op = "process_events" /\ call.type_id = handler_registry.type_id =>
          call.out \in Handlers

C36_Monotone ==
    [][/\ \A e \in 1..Len(ApiEvents) :
             handler_exists_for_event(handler_registry, ApiEvents[e]) =>
                handler_exists_for_event(handler_registry', ApiEvents[e])
       /\ DOMAIN handler_registry.handlers \subseteq DOMAIN handler_registry'.handlers
       /\ DOMAIN handler_registry.native_handlers
             \subseteq DOMAIN handler_registry'.native_handlers]_vars

C36_ResolutionNeverFaults == []C36_Resolves /\ C36_Monotone

\* the handler of a generic component's event and the native handler of a vault
\* event were resolved in a registry that holds handlers in both tables
C36_Witness ==
    /\ call.op = "process_events"
    /\ call.type_id = handler_registry.type_id
    /\ ApiEvents[call.event] = EvVaultWithdraw
    /\ call.out = "h2"
    /\ Get(handler_registry.handlers, <<"A", "SwapEvent">>) = "h1"
(* --------------------------- no rollback on retry ----------------------- *)
\* C37: no rollback on retry. The user state and the registry change only while
\* an event handler runs: no step of the processor itself, a retry included,
\* changes either. What the handlers of a failed attempt wrote and registered is
\* therefore in place when the handler is invoked again: the state holds every
\* write made for the current transaction, and a registry entry is never lost.
C37_Frame ==
    [][/\ (state' # state \/ registry' # registry) => pc = "eh_run" /\ pc' = "eh_ret"
       /\ state' >= state
       /\ DOMAIN registry.handlers \subseteq DOMAIN registry'.handlers
       /\ DOMAIN registry.native_handlers \subseteq DOMAIN registry'.native_handlers
       /\ pc \in {"eh_ret", "th_ret"} => UNCHANGED <<state, registry>>]_vars

C37_Kept == state >= SumTo(evTot, MaxEvents) - evActive

C37_NoRollback == []C37_Kept /\ C37_Frame

\* the transaction handler is about to be invoked again: the failed attempt ran
\* two event handlers, whose writes and whose registration are in place
C37_Witness ==
    /\ pc = "th_call"
    /\ txInv = 1
    /\ state = 2
    /\ SumTo(evTot, MaxEvents) = 2
    /\ registry \notin InitialRegistries
(* --------------------------- the logger's lock -------------------------- *)
\* C38: logger lock discipline. The processor holds the write guard exactly
\* while one hook call runs; it holds no guard and waits for none while a
\* handler runs, while it sleeps before a retry and while it waits on the
\* channel. The periodic-report task holds a read guard exactly while
\* periodic_report runs. A write guard and a read guard are never out together,
\* so a periodic report never runs during a hook call. A task that waits for the
\* lock gets it, however often the handlers are retried.
C38_Guards ==
    /\ ~(logger_lock.writer /\ logger_lock.readers > 0)
    /\ logger_lock.writer = (lphase = "holding" /\ lpc \in HookSites)
    /\ logger_lock.readers =
          (IF ptask = "report" THEN 1 ELSE 0)
          + (IF lphase = "holding" /\ lpc = "periodic_report_interval" THEN 1 ELSE 0)
    /\ lpc \notin LockSites => lphase = "idle"
    /\ ptask = "report" => lphase # "holding"
    /\ (ptask = "waiting") = (\E k \in 1..Len(waiters) : waiters[k] = "periodic")
    /\ (lphase = "waiting") = (\E k \in 1..Len(waiters) : waiters[k] = "processor")

C38_NoDeadlock ==
    /\ (lphase = "waiting") ~> (lphase = "holding")
    /\ (ptask = "waiting") ~> (ptask \in {"report", "aborted"})

C38_LockDiscipline == []C38_Guards /\ C38_NoDeadlock

\* the periodic-report task waits for the lock while the processor is in the
\* receive_event call of a retry
C38_Witness ==
    /\ ptask = "waiting"
    /\ lphase = "holding"
    /\ lpc = "receive_event_retry"
    /\ logger_lock.writer
(* -------------------------------- progress ------------------------------ *)
\* the calls of finish_transaction for the current transaction
C40_Finished(handling) ==
    SelectSeq(hooks, LAMBDA h : h.hook = "finish_transaction" /\ h.handling = handling)

\* when process_transaction has returned Ok: the transaction is finished once,
\* with handling = true exactly if it had a registered handler on arrival
C40_FinishedOnce ==
    /\ pc = "pt_done" /\ loggerOn =>
          /\ Len(C40_Finished(handler_exists)) = 1
          /\ Len(C40_Finished(~handler_exists)) = 0
          /\ hooks[Len(hooks)] = Hook("finish_transaction", 0, handler_exists, FALSE, NoCause)
    /\ pc = "pt_done" => (handler_exists = (txInv > 0))
    /\ \A j, k \in 1..Len(done) : done[j] = done[k] => j = k
    /\ \A j \in 1..Len(handled) :
          \/ \E k \in 1..Len(done) : done[k] = handled[j]
          \/ j = Len(handled) /\ cur.state_version = handled[j]

\* run returns an error only if start failed or a handler returned
\* UnrecoverableError; a run that returned Ok has finished everything sent
C40_Result ==
    pc = "returned" =>
       \/ /\ runResult = Ok
          /\ chan = <<>>
          /\ ~senderOpen
          /\ done = [k \in 1..sent |-> from_state_version + k - 1]
       \/ runResult = Err("UnrecoverableError", Cause("start", 0, 0))
       \/ /\ lastUnrecoverable # NoCause
          /\ runResult = Err("UnrecoverableError", lastUnrecoverable)

\* C40: progress. The source sends finitely many transactions and drops its
\* Sender, and handlers ask for a retry finitely often. Under fair scheduling
\* run returns; unless start failed or a handler returned UnrecoverableError it
\* returns Ok, and then every transaction sent was finished exactly once, with
\* handling = true if it had a registered handler on arrival.
C40_Success ==
    <>(\/ lastUnrecoverable # NoCause
       \/ runResult = Err("UnrecoverableError", Cause("start", 0, 0))
       \/ pc = "returned" /\ runResult = Ok)

C40_Progress ==
    /\ <>(pc = "returned")
    /\ C40_Success
    /\ []C40_Result
    /\ []C40_FinishedOnce

\* run has returned Ok after two transactions, each after a retry
C40_Witness ==
    /\ entry = "run"
    /\ pc = "returned"
    /\ runResult = Ok
    /\ Len(handled) = 2
    /\ handled = done
    /\ retries = 2

\* ---------------------------------------------------------------------------
\* C39: logging does not influence processing. The second run is the first one
\* again with disable_logging(): it calls no hook and spawns no periodic-report
\* task, it makes the same handler calls in the same order, no more and no
\* fewer, and it returns the same result with the same state and registry.
\* the call the processor is about to get an answer to, None when it is at none
C39_Call ==
    CASE pc = "start" -> <<"start", 0, 0, "stream">>
      [] pc = "th_body" -> <<"transaction", cur.state_version, 0, handlerKind>>
      [] pc = "th_after" -> <<"transaction_returns", cur.state_version, 0, handlerKind>>
      [] pc = "eh_run" -> <<"event", cur.state_version, evIdx, event_handler>>
      [] OTHER -> <<"none", 0, 0, None>>
C39_Silent ==
    ~loggerOn =>
        /\ hooks = <<>>
        /\ periodic = "none"
        /\ ~reportAfterReturn
        /\ \A k \in 1..Len(retry_steps) : retry_steps[k].step = "sleep"
C39_SameCalls ==
    /\ script_pos <= Len(script)
    /\ C39_Call[1] # "none" =>
          /\ script_pos < Len(script)
          /\ script[script_pos + 1].call = C39_Call
C39_SameOutcome ==
    pc = "returned" =>
        /\ script_pos = Len(script)
        /\ runResult = first_run.runResult
        /\ state = first_run.state
        /\ registry = first_run.registry
====
